---- MODULE Spec2Model ----
(***************************************************************************)
(* The turn orchestrator of pyopencode (runner.py) with the session log    *)
(* (session/store.py), the permission engine (tools/permissions.py),       *)
(* the prompt builder (compaction/builder.py), the MCP client              *)
(* (mcp/client.py, mcp/bridge.py, app_context.py) and the line-edit tools  *)
(* (tools/builtin_tools/file_edit.py, file_multiedit.py).                  *)
(*                                                                         *)
(* Spec is a process that opens a session file and runs a turn with a      *)
(* working event log. SpecEvents adds the failure of an event-log write.   *)
(* SpecCmd is the cmd command of main.py running a command template, and   *)
(* SpecResume a run on a new session followed by continue-run.             *)
(* SpecSanitizer, SpecStore and SpecPermissions apply the sanitizer, the   *)
(* session store and the permission engine to inputs drawn from bounded    *)
(* sets. SpecMcp is one MCPClient with its reader thread, its callers and  *)
(* its child process; SpecMcpLive adds the fairness of the threads.        *)
(* SpecContext is the construction and the close of the context's MCP      *)
(* clients. SpecPrompt, SpecTruncate and SpecMultiEdit apply the prompt    *)
(* builder, the tool-result truncation and the multiedit tool to inputs    *)
(* drawn from bounded sets.                                                *)
(*                                                                         *)
(* Abstractions: message texts are tokens; a tool-call id is a number      *)
(* (0 is the empty/None id, 1..MaxLlmId are ids chosen by the LLM, ids     *)
(* from SynthBase upward are the synthesized tc_<session>_<step>_<i>_<uuid>*)
(* ids, the uuid part being modelled as a fresh number).                   *)
(***************************************************************************)
EXTENDS Integers, Sequences, FiniteSets, TLC

VARIABLES
    disk,         \* lines of the session file <sid>.jsonl
    mem,          \* ctx.session.messages
    provider,     \* ctx.provider: [provider_name, model]
    permissions,  \* ctx.permissions: [defaults, rules, auto_approve]
    agent,        \* ctx.agent: the agent profile
    cli,          \* the CLI flags [yes, no_bash, allow_edit]
    mcp_clients,  \* ctx.mcp_clients: the MCP clients of the context
    procs,        \* the MCP child processes and their pipes
    threads,      \* thread frames: the callers of MCPClient.request, register_mcp_servers
    files,        \* the file in the working directory that the edit tools touch
    pc,           \* position of the process / of run_agent_once
    user_prompt,  \* argument of run_agent_once ("None" or a text)
    max_steps,    \* argument of run_agent_once
    resume,       \* argument of run_agent_once
    policy,       \* local of run_agent_once: the CompactionPolicy
    step,         \* local of run_agent_once
    final_text,   \* local of run_agent_once
    attempt,      \* failed provider attempts in the current step
    last_err,     \* local of run_agent_once: the last provider error
    chats,        \* LLM steps begun by this invocation of run_agent_once
    calls,        \* turn.tool_calls not yet processed by the for loop
    pending,      \* pending calls not yet processed by the resume loop
    ret,          \* value returned or exception raised by run_agent_once
    trace,        \* observable effects: permission prompts and tool executions
    uid,          \* number of uuid4() values drawn so far
    turns,        \* number of run_agent_once invocations so far
    texts,        \* turn.text of the turns the provider returned to this invocation
    base,         \* len(ctx.session.messages) when the loop of run_agent_once starts
    command       \* the CommandSpec that the cmd command loaded

vars == <<disk, mem, provider, permissions, agent, cli, mcp_clients, procs,
          threads, files, pc, user_prompt, max_steps, resume, policy, step, final_text, attempt, last_err, chats, calls,
          pending, ret, trace, uid, turns, texts, base, command>>

----------------------------------------------------------------------------
\* Bounds of the model.
MaxTurns == 1
MaxCalls == 2
MaxStepsArg == 2
MaxLlmId == 1
MaxLen == 3
MaxLines == 3
MaxRules == 2
MaxThreads == 2
MaxRequests == 3
MaxReplies == 2
PipeCap == 1
MaxServers == 3
MaxWindow == 2
MaxCap == 30
MaxChars == 34
MaxFileLines == 3
MaxEdits == 2
MaxBuilds == 2
MaxRuns == 2

\* Program constants.
max_messages == 45
summarize_when_over == 60
MinHeadToSum == 8
MaxAttempts == 3

SynthBase == MaxLlmId + 1

----------------------------------------------------------------------------
\* session/models.py

None == "None"
NoCalls == [some |-> FALSE, v |-> <<>>]
SomeCalls(s) == [some |-> TRUE, v |-> s]

Message(role, content, name, tool_call_id, tool_calls) ==
    [role |-> role, content |-> content, name |-> name,
     tool_call_id |-> tool_call_id, tool_calls |-> tool_calls]

SystemMsg(name, content) == Message("system", content, name, 0, NoCalls)
UserMsg(content) == Message("user", content, None, 0, NoCalls)
AssistantText(content) == Message("assistant", content, None, 0, NoCalls)
AssistantCalls(content, cs) == Message("assistant", content, None, 0, SomeCalls(cs))
ToolMsg(content, id) == Message("tool", content, None, id, NoCalls)

\* A persisted tool call {"id", "type", "function": {"name", "arguments"}}.
CallDict(id, name, arguments) == [id |-> id, name |-> name, arguments |-> arguments]
ToolCall(id, name) == [id |-> id, name |-> name]

\* Python truthiness of Message.tool_calls (None and [] are falsy).
Truthy(tool_calls) == tool_calls.some /\ Len(tool_calls.v) > 0

Message_to_openai(m) ==
    [role |-> m.role,
     content |-> m.content,
     name |-> IF m.name # None /\ m.role # "tool" THEN m.name ELSE None,
     tool_call_id |-> m.tool_call_id,
     tool_calls |-> IF m.role = "assistant" THEN m.tool_calls ELSE NoCalls]

----------------------------------------------------------------------------
\* session/store.py

\* The file is the sequence of the texts written to it. Of a text: parses
\* tells whether it is one whole JSON document of a Message (obj), nl
\* whether it ends with "\n", torn whether it ends inside a multi-byte
\* character.

\* A text holding U+2028, U+2029 or U+0085.
LS == "a<U+2028>b"

\* json.dumps(msg.__dict__, ensure_ascii=False) + "\n" (line 49).
json_dumps(m) == [parses |-> TRUE, obj |-> m, nl |-> TRUE, torn |-> FALSE]

\* What a process killed inside f.write leaves: a prefix of the line.
PartialLine(torn) == [parses |-> FALSE, obj |-> UserMsg(""), nl |-> FALSE, torn |-> torn]

\* f.write on a file opened with "a": after a text that does not end with
\* "\n" the new text continues the same line.
file_write(lines, line) ==
    IF lines # <<>> /\ ~lines[Len(lines)].nl
    THEN [lines EXCEPT ![Len(lines)] = [@ EXCEPT !.parses = FALSE, !.nl = line.nl]]
    ELSE Append(lines, line)

\* path.read_text(encoding="utf-8") raises UnicodeDecodeError on a file that
\* ends inside a multi-byte character.
read_text_raises(lines) == \E i \in 1..Len(lines) : lines[i].torn

\* str.splitlines splits at "\n" and also at U+2028, U+2029 and U+0085,
\* which json.dumps(ensure_ascii=False) writes unescaped: the pieces of such
\* a line are not JSON documents.
splitlines_parses(line) == line.parses /\ line.obj.content # LS

\* The messages SessionStore.open loads (lines 30-42).
RECURSIVE SessionStore_open(_)
SessionStore_open(lines) ==
    IF lines = <<>> THEN <<>>
    ELSE LET rest == SessionStore_open(SubSeq(lines, 1, Len(lines) - 1))
             line == lines[Len(lines)]
         IN  IF splitlines_parses(line) THEN Append(rest, line.obj) ELSE rest

----------------------------------------------------------------------------
\* tools/registry.py, tools/builtin.py: the registered tools and their
\* permission class (spec.permission_key). "ghost" names a tool the model
\* hallucinates: it is not registered.

\* tools/builtin_tools: ToolSpec.name and ToolSpec.permission_key.
ToolSpecs ==
    [name \in {"read", "grep", "write", "edit", "bash"} |->
        IF name \in {"read", "grep"} THEN "read"
        ELSE IF name \in {"write", "edit"} THEN "edit"
        ELSE "bash"]

\* The tools registered in the process of Spec.
Registered == {"read", "bash"}
\* The tool names the provider asks for.
LlmToolNames == {"bash", "ghost"}
permission_key(tool) == ToolSpecs[tool]

get_optional(name) == IF name \in Registered THEN name ELSE None

----------------------------------------------------------------------------
\* tools/permissions.py

\* fnmatch for the patterns used here: a literal, or the lone wildcard.
fnmatch(s, pat) == pat = "*" \/ pat = s

PermissionRule(match, decision) == [match |-> match, decision |-> decision]
ToolRule(pat) == [tool |-> TRUE, pat |-> pat]
AnyRule(pat) == [tool |-> FALSE, pat |-> pat]

DefaultMap ==
    [k \in {"read", "edit", "bash", "mcp"} |->
        IF k = "read" THEN "allow" ELSE "ask"]

RuleMatches(rule, key, tool_name) ==
    IF rule.match.tool
    THEN fnmatch(tool_name, rule.match.pat)
    ELSE fnmatch(key, rule.match.pat) \/ fnmatch(tool_name, rule.match.pat)

RECURSIVE match_rules_loop_ResetsOnMiss(_, _, _, _)
match_rules_loop_ResetsOnMiss(rules, key, tool_name, decision) ==
    IF rules = <<>> THEN decision
    ELSE match_rules_loop_ResetsOnMiss(Tail(rules), key, tool_name,
                                       IF RuleMatches(Head(rules), key, tool_name)
                                       THEN Head(rules).decision
                                       ELSE None)

\* The loop of _match_rules: decision is the value assigned so far.
RECURSIVE match_rules_loop(_, _, _, _)
match_rules_loop(rules, key, tool_name, decision) ==
    IF rules = <<>> THEN decision
    ELSE match_rules_loop(Tail(rules), key, tool_name,
                          IF RuleMatches(Head(rules), key, tool_name)
                          THEN Head(rules).decision
                          ELSE decision)

RECURSIVE match_rules_FirstWins(_, _, _)
match_rules_FirstWins(rules, key, tool_name) ==
    IF rules = <<>> THEN None
    ELSE IF RuleMatches(Head(rules), key, tool_name) THEN Head(rules).decision
    ELSE match_rules_FirstWins(Tail(rules), key, tool_name)

match_rules(rules, key, tool_name) == match_rules_loop(rules, key, tool_name, None)

PermissionConfig_decide(cfg, key, tool_name) ==
    LET r == match_rules(cfg.rules, key, tool_name)
    IN  IF r # None THEN r
        ELSE IF key \in DOMAIN cfg.defaults THEN cfg.defaults[key]
        ELSE IF tool_name \in DOMAIN cfg.defaults THEN cfg.defaults[tool_name]
        ELSE "ask"

PermissionGate_decide_AutoApproveFirst(gate, key, tool_name, answer) ==
    LET decision == PermissionConfig_decide(gate, key, tool_name)
    IN  IF decision = "allow" \/ gate.auto_approve THEN TRUE
        ELSE IF decision = "deny" THEN FALSE
        ELSE answer

\* PermissionGate.decide; answer is what the user types at the prompt.
PermissionGate_decide(gate, key, tool_name, answer) ==
    LET decision == PermissionConfig_decide(gate, key, tool_name)
    IN  IF decision = "allow" THEN TRUE
        ELSE IF decision = "deny" THEN FALSE
        ELSE IF gate.auto_approve THEN TRUE
        ELSE answer

\* The gate prompts (blocks on console.input) only on an ask decision
\* without auto-approve.
GatePrompts(gate, key, tool_name) ==
    /\ PermissionConfig_decide(gate, key, tool_name) = "ask"
    /\ ~gate.auto_approve

\* app_context.py: defaults, behavior rules, agent overrides, CLI flags.
from_env_permissions(rules, overrides, deny_bash, allow_edit, auto_approve) ==
    LET d0 == [k \in DOMAIN DefaultMap \cup DOMAIN overrides |->
                  IF k \in DOMAIN overrides THEN overrides[k] ELSE DefaultMap[k]]
        d1 == IF deny_bash THEN [d0 EXCEPT !["bash"] = "deny"] ELSE d0
        d2 == IF allow_edit THEN [d1 EXCEPT !["edit"] = "allow"] ELSE d1
        d3 == IF auto_approve
              THEN [d2 EXCEPT !["edit"] = "allow", !["bash"] = "allow"]
              ELSE d2
    IN  [defaults |-> d3, rules |-> rules, auto_approve |-> auto_approve]

\* agents/registry.py: permission_overrides of the built-in profiles
\* general, plan and run.
GeneralOverrides == [k \in {} |-> "ask"]
PlanOverrides == [k \in {"edit", "bash"} |-> "deny"]
RunOverrides == [k \in {"edit", "bash"} |-> "allow"]

\* agents/models.py; max_steps: int | None.
NoSteps == [some |-> FALSE, v |-> 0]
SomeSteps(n) == [some |-> TRUE, v |-> n]

AgentProfile(name, steps, model, overrides) ==
    [name |-> name, system_prompt |-> "base", max_steps |-> steps,
     model |-> model, permission_overrides |-> overrides]

General == AgentProfile("general", NoSteps, None, GeneralOverrides)
Plan == AgentProfile("plan", NoSteps, None, PlanOverrides)
Run == AgentProfile("run", NoSteps, None, RunOverrides)
\* A custom agent of the behavior config that sets max_steps.
Short == AgentProfile("short", SomeSteps(1), None, GeneralOverrides)

\* agents/models.py line 9, @dataclass(frozen=True): an assignment to a
\* field of an AgentProfile raises FrozenInstanceError and changes nothing.
AgentProfile_setattr(profile, name, value) == [raised |-> TRUE, obj |-> profile]

\* commands/models.py: the front matter of a command template.
CommandSpec(agent_name, model, steps) ==
    [agent |-> agent_name, model |-> model, max_steps |-> steps]
NoCommand == CommandSpec(None, None, NoSteps)

\* The CLI flags --yes, --no-bash, --allow-edit.
Cli(yes, no_bash, allow_edit) == [yes |-> yes, no_bash |-> no_bash, allow_edit |-> allow_edit]

\* AppContext.from_env as main.py calls it: allow_edit=allow_edit or yes.
from_env(rules, profile, flags) ==
    from_env_permissions(rules, profile.permission_overrides,
                         flags.no_bash, flags.allow_edit \/ flags.yes, flags.yes)

----------------------------------------------------------------------------
\* runner.py: helpers

IsAssistantWithCalls(m) == m.role = "assistant" /\ Truthy(m.tool_calls)

\* _parse_openai_tool_calls: an entry whose arguments string is not JSON
\* is skipped.
RECURSIVE parse_openai_tool_calls(_)
parse_openai_tool_calls(tool_calls) ==
    IF tool_calls = <<>> THEN <<>>
    ELSE LET tc == Head(tool_calls)
             rest == parse_openai_tool_calls(Tail(tool_calls))
         IN  IF tc.arguments = "{}" THEN <<ToolCall(tc.id, tc.name)>> \o rest
             ELSE rest

RECURSIVE CleanLoop_StopsAfterOne(_, _)
CleanLoop_StopsAfterOne(msgs, cleaned) ==
    IF msgs = <<>> THEN cleaned
    ELSE LET m == Head(msgs)
         IN  IF m.role = "tool"
                /\ (cleaned = <<>> \/ ~IsAssistantWithCalls(cleaned[Len(cleaned)]))
             THEN cleaned \o Tail(msgs)
             ELSE CleanLoop_StopsAfterOne(Tail(msgs), Append(cleaned, m))

\* The loop of _clean_invalid_tool_messages: cleaned is the list built so far.
RECURSIVE CleanLoop(_, _)
CleanLoop(msgs, cleaned) ==
    IF msgs = <<>> THEN cleaned
    ELSE LET m == Head(msgs)
         IN  IF m.role = "tool"
                /\ (cleaned = <<>> \/ ~IsAssistantWithCalls(cleaned[Len(cleaned)]))
             THEN CleanLoop(Tail(msgs), cleaned)
             ELSE CleanLoop(Tail(msgs), Append(cleaned, m))

clean_invalid_tool_messages(msgs) == CleanLoop(msgs, <<>>)

\* _clean_invalid_tool_dict_messages runs the same loop on the prompt dicts.
clean_invalid_tool_dict_messages(messages) == CleanLoop(messages, <<>>)

\* _validate_openai_messages: TRUE when it returns, FALSE when it raises.
validate_openai_messages(messages) ==
    \A i \in 1..Len(messages) :
        messages[i].role = "tool" =>
            /\ i > 1
            /\ IsAssistantWithCalls(messages[i - 1])
            /\ messages[i].tool_call_id # 0

\* _assert_can_append_tool: TRUE when it returns, FALSE when it raises.
assert_can_append_tool(msgs, tool_call_id) ==
    /\ msgs # <<>>
    /\ IsAssistantWithCalls(msgs[Len(msgs)])
    /\ tool_call_id # 0

\* The backward scan of _resume_pending_tool_calls from index i; 0 is not found.
RECURSIVE ScanBack(_, _)
ScanBack(msgs, i) ==
    IF i = 0 THEN 0
    ELSE IF IsAssistantWithCalls(msgs[i]) THEN i
    ELSE IF msgs[i].role = "user" THEN 0
    ELSE ScanBack(msgs, i - 1)

\* The ids of the tool messages that directly follow index j - 1.
RECURSIVE AnsweredFrom(_, _)
AnsweredFrom(msgs, j) ==
    IF j > Len(msgs) \/ msgs[j].role # "tool" THEN {}
    ELSE (IF msgs[j].tool_call_id # 0 THEN {msgs[j].tool_call_id} ELSE {})
         \cup AnsweredFrom(msgs, j + 1)

\* Whether _resume_pending_tool_calls writes an event before its loop:
\* resume.aborted_non_tool_after_assistant or resume.pending_tools, once the
\* list pending of line 210 is not empty.
ResumeWritesEvent(msgs) ==
    LET last_idx == ScanBack(msgs, Len(msgs))
    IN  /\ msgs # <<>>
        /\ last_idx # 0
        /\ LET tool_calls == parse_openai_tool_calls(msgs[last_idx].tool_calls.v)
               answered == AnsweredFrom(msgs, last_idx + 1)
           IN  \E k \in 1..Len(tool_calls) :
                   tool_calls[k].id # 0 /\ tool_calls[k].id \notin answered

ResumePending_NoSafetyLoop(msgs) ==
    LET last_idx == ScanBack(msgs, Len(msgs))
    IN  IF msgs = <<>> \/ last_idx = 0 THEN <<>>
        ELSE LET tool_calls == parse_openai_tool_calls(msgs[last_idx].tool_calls.v)
                 answered == AnsweredFrom(msgs, last_idx + 1)
                 IsPending(tc) == tc.id # 0 /\ tc.id \notin answered
             IN  SelectSeq(tool_calls, IsPending)

\* The calls the resume phase will execute; <<>> when
\* _resume_pending_tool_calls returns False before executing anything.
ResumePending(msgs) ==
    LET last_idx == ScanBack(msgs, Len(msgs))
    IN  IF msgs = <<>> \/ last_idx = 0 THEN <<>>
        ELSE LET tool_calls == parse_openai_tool_calls(msgs[last_idx].tool_calls.v)
                 answered == AnsweredFrom(msgs, last_idx + 1)
                 IsPending(tc) == tc.id # 0 /\ tc.id \notin answered
                 pend == SelectSeq(tool_calls, IsPending)
             IN  IF \E j \in (last_idx + 1)..Len(msgs) : msgs[j].role # "tool"
                 THEN <<>>
                 ELSE pend

----------------------------------------------------------------------------
\* compaction/builder.py

\* compaction/policy.py: CompactionPolicy() with its default values.
CompactionPolicy ==
    [max_messages |-> max_messages, summarize_when_over |-> summarize_when_over,
     max_tool_result_chars |-> 12000, max_message_chars |-> 20000]

SUMMARY_NAME == "pyopencode_summary"
AGENT_NAME == "pyopencode_agent"

IsSummary(m) == m.role = "system" /\ m.name = SUMMARY_NAME
IsSystem(m) == m.role = "system"
NotSystem(m) == m.role # "system"
NotSummary(m) == ~IsSummary(m)

\* Python's xs[-n:] and xs[:-n].
PySuffix(xs, n) ==
    IF n > 0 THEN SubSeq(xs, (IF Len(xs) > n THEN Len(xs) - n + 1 ELSE 1), Len(xs))
    ELSE SubSeq(xs, 1 - n, Len(xs))
PyPrefix(xs, n) ==
    IF n > 0 THEN SubSeq(xs, 1, Len(xs) - n)
    ELSE SubSeq(xs, 1, IF -n < Len(xs) THEN -n ELSE Len(xs))

RECURSIVE MapToOpenai(_)
MapToOpenai(msgs) ==
    IF msgs = <<>> THEN <<>>
    ELSE <<Message_to_openai(Head(msgs))>> \o MapToOpenai(Tail(msgs))

\* build_prompt_messages with no SKILL.md and no rules text: the result's
\* messages and new_summary_message (None when nothing was summarized).
build_prompt_messages(session_messages, agent_prompt, pol) ==
    LET injected == IF agent_prompt # ""
                    THEN <<SystemMsg(AGENT_NAME, agent_prompt)>> \o session_messages
                    ELSE session_messages
        tail == PySuffix(injected, pol.max_messages)
        head_to_sum == SelectSeq(PyPrefix(injected, pol.max_messages), NotSummary)
        summarizes == /\ Len(injected) >= pol.summarize_when_over
                      /\ Len(head_to_sum) >= MinHeadToSum
        new_summary == SystemMsg(SUMMARY_NAME, "summary")
        msgs == IF summarizes THEN <<new_summary>> \o tail ELSE injected
        kept_system == SelectSeq(msgs, IsSystem)
        kept_other == SelectSeq(msgs, NotSystem)
        capped == IF Len(msgs) > pol.max_messages
                  THEN kept_system \o PySuffix(kept_other, pol.max_messages - Len(kept_system))
                  ELSE msgs
    IN  [messages |-> MapToOpenai(capped),
         summarized |-> summarizes,
         new_summary_message |-> new_summary]

----------------------------------------------------------------------------
\* runner.py: run_agent_once

SYSTEM_PROMPT == "SYSTEM_PROMPT"
NOTICE == "Reached max steps without final answer"
LLM_FAILED == "LLM call failed after retries"

Providers ==
    { [provider_name |-> "deepseek", model |-> "deepseek-chat"],
      [provider_name |-> "openai", model |-> "gpt-4o"],
      [provider_name |-> "deepseek", model |-> "deepseek-reasoner"] }

\* "deepseek" in s, for the names above.
HasDeepseek(s) == s \in {"deepseek", "deepseek-chat", "deepseek-reasoner"}

\* Lines 291-292: the agent profile's max_steps replaces the argument.
StepLimit_IgnoresAgent(profile, arg) == arg

StepLimit(profile, arg) ==
    IF profile.max_steps.some THEN profile.max_steps.v ELSE arg

\* llm/openai_compat.py 146-150: what chat raises, a RuntimeError for an HTTP
\* status (4xx fatal, 5xx transient) or for a URLError.
ProviderErrors == {"HTTPError 4xx", "HTTPError 5xx", "URLError"}

\* Line 394, for attempt in range(3): whether the provider is called again
\* after failed calls have failed.
Retries_OnceMore(failed) == failed < MaxAttempts + 1

Retries(failed) == failed < MaxAttempts

\* Where a for loop over tool calls goes after an iteration: to its next
\* iteration while calls are left (rest), past the loop otherwise.
AfterCall_LeavesEarly(rest, here, done) == done

AfterCall_SkipsLast(rest, here, done) == IF Len(rest) <= 1 THEN done ELSE here

AfterCall(rest, here, done) == IF rest = <<>> THEN done ELSE here

\* What the for loops over tool calls do with one call.
CallDisposition_NoGate(tool, allowed) ==
    IF tool = None THEN "missing" ELSE "execute"

CallDisposition(tool, allowed) ==
    IF tool = None THEN "missing"
    ELSE IF ~allowed THEN "denied"
    ELSE "execute"

GateEvent(tc, allowed) == [ev |-> "gate", id |-> tc.id, name |-> tc.name, ok |-> allowed]
\* console.input of PermissionGate.decide: ok is whether the answer is y/yes.
PromptEvent(tc, answer) == [ev |-> "prompt", id |-> tc.id, name |-> tc.name, ok |-> answer]
ExecEvent(tc, raises) == [ev |-> "exec", id |-> tc.id, name |-> tc.name, ok |-> ~raises]

\* One iteration of a tool-call loop on the session msgs: the effects that
\* happen (permission decision, execution), whether the protocol assertion
\* raises, and the tool message appended when it does not. suffix is
\* " (resume)" in the resume loop.
ExecuteCall(tc, msgs, gate, answer, raises, suffix) ==
    LET tool == get_optional(tc.name)
        allowed == PermissionGate_decide(gate, permission_key(tool), tool, answer)
        what == CallDisposition(tool, IF tool = None THEN FALSE ELSE allowed)
        content == IF what = "missing" THEN "not found" \o suffix
                   ELSE IF what = "denied" THEN "denied" \o suffix
                   ELSE IF raises THEN "exception"
                   ELSE "result"
    IN  [events |-> IF tool = None THEN <<>>
                    ELSE IF what = "execute"
                    THEN <<GateEvent(tc, allowed), ExecEvent(tc, raises)>>
                    ELSE <<GateEvent(tc, allowed)>>,
         raised |-> ~assert_can_append_tool(msgs, tc.id),
         reply |-> ToolMsg(content, tc.id)]

\* Lines 465-467: the candidate final text after a turn.
latest_text_Overwrites(final, text) == text

latest_text(final, text) == IF text # "" THEN text ELSE final

\* Lines 436-446: ids the model left empty are synthesized, u counts the
\* uuid4() values drawn before.
RECURSIVE SynthesizeIds(_, _)
SynthesizeIds(tool_calls, u) ==
    IF tool_calls = <<>> THEN <<>>
    ELSE LET tc == Head(tool_calls)
         IN  IF tc.id = 0
             THEN <<ToolCall(SynthBase + u, tc.name)>> \o SynthesizeIds(Tail(tool_calls), u + 1)
             ELSE <<tc>> \o SynthesizeIds(Tail(tool_calls), u)

EmptyIds(tool_calls) == Len(SelectSeq(tool_calls, LAMBDA tc : tc.id = 0))

RECURSIVE ToCallDicts(_)
ToCallDicts(tool_calls) ==
    IF tool_calls = <<>> THEN <<>>
    ELSE <<CallDict(Head(tool_calls).id, Head(tool_calls).name, "{}")>>
         \o ToCallDicts(Tail(tool_calls))

AssistantMessage_KeepsText(text, tool_calls) ==
    IF tool_calls # <<>>
    THEN AssistantCalls(text, ToCallDicts(tool_calls))
    ELSE AssistantCalls(text, <<>>)

\* Lines 448-461: the assistant message persisted for a turn.
AssistantMessage(text, tool_calls) ==
    IF tool_calls # <<>>
    THEN AssistantCalls(None, ToCallDicts(tool_calls))
    ELSE AssistantText(text)

----------------------------------------------------------------------------
\* Session files found on disk when a process starts: a new session, files
\* left by a process that stopped between an assistant message and its tool
\* replies, and files polluted by older versions.

Sys == SystemMsg(None, SYSTEM_PROMPT)
ReadCall(id) == CallDict(id, "read", "{}")
BashCall(id) == CallDict(id, "bash", "{}")

SeedSessions ==
    { <<>>,
      <<Sys, UserMsg("u"), AssistantText("hi"), ToolMsg("orphan", 2)>>,
      <<Sys, UserMsg("u"), AssistantCalls(None, <<ReadCall(1)>>)>>,
      <<Sys, UserMsg("u"), AssistantCalls(None, <<ReadCall(1), BashCall(2)>>),
        ToolMsg("result", 1)>>,
      <<Sys, UserMsg("u"), AssistantCalls(None, <<ReadCall(1), BashCall(2)>>),
        ToolMsg("result", 1), ToolMsg("result", 2)>>,
      <<Sys, UserMsg("u"), AssistantCalls(None, <<ReadCall(1)>>), ToolMsg("result", 0)>>,
      <<Sys, UserMsg("u"), AssistantCalls(None, <<ReadCall(1)>>), ToolMsg("result", 2)>>,
      <<Sys, UserMsg("u"), AssistantCalls(None, <<ReadCall(1)>>), AssistantText("hi")>>,
      <<Sys, AssistantCalls(None, <<ReadCall(1)>>), UserMsg("u")>>,
      <<Sys, UserMsg("u"),
        AssistantCalls(None, <<CallDict(0, "read", "{}"), CallDict(1, "read", "{bad")>>)>> }

RECURSIVE DumpAll(_)
DumpAll(msgs) ==
    IF msgs = <<>> THEN <<>> ELSE <<json_dumps(Head(msgs))>> \o DumpAll(Tail(msgs))

\* The turns the provider can return.
CallSeqs ==
    UNION { [1..n -> [id : 0..MaxLlmId, name : LlmToolNames]] : n \in 0..MaxCalls }
Turns == [text : {"", "t"}, tool_calls : CallSeqs]

----------------------------------------------------------------------------
\* No MCP server is configured and no file is being edited.
OsAtRest ==
    /\ mcp_clients = <<>>
    /\ procs = <<>>
    /\ threads = <<>>
    /\ files = <<>>

Init ==
    /\ disk \in {DumpAll(s) : s \in SeedSessions}
    /\ mem = <<>>
    /\ provider = [provider_name |-> None, model |-> None]
    /\ agent = General
    /\ cli = Cli(FALSE, FALSE, FALSE)
    /\ permissions = from_env(<<>>, General, Cli(FALSE, FALSE, FALSE))
    /\ pc = "closed"
    /\ user_prompt = None
    /\ max_steps = 0
    /\ resume = FALSE
    /\ policy = CompactionPolicy
    /\ OsAtRest
    /\ step = 0
    /\ final_text = ""
    /\ attempt = 0
    /\ last_err = None
    /\ chats = 0
    /\ calls = <<>>
    /\ pending = <<>>
    /\ ret = None
    /\ trace = <<>>
    /\ uid = 0
    /\ turns = 0 /\ texts = <<>> /\ base = 0 /\ command = NoCommand

locals == <<step, final_text, attempt, last_err, chats, calls, pending>>
args == <<user_prompt, max_steps, resume, policy>>
ctx == <<provider, permissions, agent, cli, mcp_clients>>
os == <<procs, threads, files>>

\* SessionStore.append
SessionAppend(m) ==
    /\ mem' = Append(mem, m)
    /\ disk' = file_write(disk, json_dumps(m))

Return(value) == pc' = "returned" /\ ret' = value
Raise(exc) == pc' = "raised" /\ ret' = exc

\* A process starts: AppContext.from_env builds the context and opens the
\* session file (main.py run / repl / continue-run).
Open ==
    /\ pc \in {"closed", "returned", "raised"}
    /\ turns < MaxTurns
    /\ provider' \in Providers
    /\ agent' \in {General, Short}
    /\ \E yes \in BOOLEAN, no_bash \in BOOLEAN : cli' = Cli(yes, no_bash, FALSE)
    /\ permissions' = from_env(<<>>, agent', cli')
    /\ IF read_text_raises(disk)
       THEN Raise("UnicodeDecodeError") /\ UNCHANGED mem
       ELSE /\ mem' = SessionStore_open(disk)
            /\ pc' = "idle"
            /\ ret' = None
    /\ UNCHANGED <<disk, mcp_clients, os, args, locals, trace, uid, turns, texts, base, command>>

\* run_agent_once is called (again, in the repl).
RunAgentOnce ==
    /\ pc \in {"idle", "returned"}
    /\ turns < MaxTurns
    /\ turns' = turns + 1
    /\ user_prompt' \in {None, "u"}
    /\ max_steps' \in 1..MaxStepsArg
    /\ resume' \in BOOLEAN
    /\ policy' = CompactionPolicy
    /\ step' = 0 /\ final_text' = "" /\ attempt' = 0
    /\ last_err' = None /\ chats' = 0
    /\ calls' = <<>> /\ pending' = <<>>
    /\ ret' = None
    /\ texts' = <<>> /\ base' = 0
    /\ pc' = "sanitize"
    /\ UNCHANGED <<disk, mem, ctx, os, trace, uid, command>>

\* Line 288.
SanitizeLoaded ==
    /\ pc = "sanitize"
    /\ mem' = clean_invalid_tool_messages(mem)
    /\ pc' = "system"
    /\ UNCHANGED <<disk, ctx, os, args, locals, ret, trace, uid, turns, texts, base, command>>

\* Lines 294-296.
EnsureSystem ==
    /\ pc = "system"
    /\ IF \E i \in 1..Len(mem) : mem[i].role = "system"
       THEN UNCHANGED <<mem, disk>>
       ELSE SessionAppend(Sys)
    /\ pc' = IF resume THEN "resume" ELSE "user"
    /\ UNCHANGED <<ctx, os, args, locals, ret, trace, uid, turns, texts, base, command>>

\* _resume_pending_tool_calls up to its loop (lines 179-231).
ResumeScan ==
    /\ pc = "resume"
    /\ pending' = ResumePending(mem)
    /\ pc' = IF pending' = <<>> THEN "clean2" ELSE "resume_exec"
    /\ UNCHANGED <<disk, mem, ctx, os, args, step, final_text, attempt, last_err,
                   chats, calls, ret, trace, uid, turns, texts, base, command>>

\* One iteration of the loop of _resume_pending_tool_calls (lines 234-275).
ResumeTool ==
    /\ pc = "resume_exec"
    /\ \E answer \in BOOLEAN, raises \in BOOLEAN :
         LET r == ExecuteCall(Head(pending), mem, permissions, answer, raises, " (resume)")
         IN  /\ trace' = trace \o r.events
             /\ IF r.raised
                THEN /\ Raise("Protocol violation")
                     /\ UNCHANGED <<mem, disk, pending>>
                ELSE /\ SessionAppend(r.reply)
                     /\ pending' = Tail(pending)
                     /\ pc' = AfterCall(Tail(pending), "resume_exec", "clean2")
                     /\ UNCHANGED ret
    /\ UNCHANGED <<ctx, os, args, step, final_text, attempt, last_err, chats, calls,
                   uid, turns, texts, base, command>>

\* Line 302.
SanitizeResumed ==
    /\ pc = "clean2"
    /\ mem' = clean_invalid_tool_messages(mem)
    /\ pc' = "user"
    /\ UNCHANGED <<disk, ctx, os, args, locals, ret, trace, uid, turns, texts, base, command>>

\* Lines 304-314: the user message, then the locals of the loop. Line 314
\* reads model_name before its assignment when the first disjunct is false.
AppendUser ==
    /\ pc = "user"
    /\ IF user_prompt # None
       THEN SessionAppend(UserMsg(user_prompt))
       ELSE UNCHANGED <<mem, disk>>
    /\ step' = 0
    /\ final_text' = ""
    /\ IF HasDeepseek(provider.provider_name)
       THEN pc' = "loop" /\ UNCHANGED ret
       ELSE Raise("UnboundLocalError")
    /\ base' = Len(mem')
    /\ UNCHANGED <<ctx, os, args, attempt, last_err, chats, calls, pending, trace,
                   uid, turns, texts, command>>

\* Lines 316-356: the loop test, the prompt build and its validation; the
\* retry loop that follows starts with last_err = None (line 393).
LoopHead ==
    /\ pc = "loop"
    /\ LET limit == StepLimit(agent, max_steps)
           model_name == IF agent.model # None THEN agent.model ELSE provider.model
           prompt_res == build_prompt_messages(mem, agent.system_prompt, policy)
           messages == clean_invalid_tool_dict_messages(prompt_res.messages)
       IN  IF ~(step < limit)
           THEN /\ Return(IF final_text # "" THEN final_text ELSE NOTICE)
                /\ UNCHANGED <<mem, disk, attempt, last_err, chats>>
           ELSE IF model_name = "deepseek-reasoner"
           THEN /\ Raise("RuntimeError: deepseek-reasoner")
                /\ UNCHANGED <<mem, disk, attempt, last_err, chats>>
           ELSE /\ IF prompt_res.summarized
                   THEN SessionAppend(prompt_res.new_summary_message)
                   ELSE UNCHANGED <<mem, disk>>
                /\ IF validate_openai_messages(messages)
                   THEN /\ pc' = "llm"
                        /\ attempt' = 0
                        /\ last_err' = None
                        /\ chats' = chats + 1
                        /\ UNCHANGED ret
                   ELSE /\ Raise("RuntimeError: Invalid messages")
                        /\ UNCHANGED <<attempt, last_err, chats>>
    /\ UNCHANGED <<ctx, os, args, step, final_text, calls, pending, trace, uid, turns, texts, base, command>>

\* Lines 394-414: one provider call raises; any exception is caught and the
\* call is made again until three have failed.
ChatFails ==
    /\ pc = "llm"
    /\ last_err' \in ProviderErrors
    /\ attempt' = attempt + 1
    /\ IF Retries(attempt + 1)
       THEN UNCHANGED <<mem, disk, pc, ret>>
       ELSE SessionAppend(AssistantText(LLM_FAILED)) /\ Return(LLM_FAILED)
    /\ UNCHANGED <<ctx, os, args, step, final_text, chats, calls, pending, trace,
                   uid, turns, texts, base, command>>

\* Lines 397-516: one provider call returns a turn, which is persisted.
ChatReturns ==
    /\ pc = "llm"
    /\ last_err' = None
    /\ \E turn \in Turns :
         LET tool_calls == SynthesizeIds(turn.tool_calls, uid)
         IN  /\ uid' = uid + EmptyIds(turn.tool_calls)
             /\ SessionAppend(AssistantMessage(turn.text, tool_calls))
             /\ texts' = Append(texts, turn.text)
             /\ final_text' = latest_text(final_text, turn.text)
             /\ IF tool_calls = <<>> /\ turn.text # ""
                THEN Return(turn.text) /\ UNCHANGED <<step, calls>>
                ELSE /\ step' = step + 1
                     /\ calls' = tool_calls
                     /\ pc' = AfterCall(tool_calls, "tools", "loop")
                     /\ UNCHANGED ret
    /\ UNCHANGED <<ctx, os, args, attempt, chats, pending, trace, turns, base, command>>

\* One iteration of the loop over turn.tool_calls (lines 519-602).
ExecuteTool ==
    /\ pc = "tools"
    /\ \E answer \in BOOLEAN, raises \in BOOLEAN :
         LET r == ExecuteCall(Head(calls), mem, permissions, answer, raises, "")
         IN  /\ trace' = trace \o r.events
             /\ IF r.raised
                THEN /\ Raise("Protocol violation")
                     /\ UNCHANGED <<mem, disk, calls>>
                ELSE /\ SessionAppend(r.reply)
                     /\ calls' = Tail(calls)
                     /\ pc' = AfterCall(Tail(calls), "tools", "loop")
                     /\ UNCHANGED ret
    /\ UNCHANGED <<ctx, os, args, step, final_text, attempt, last_err, chats,
                   pending, uid, turns, texts, base, command>>

Next ==
    \/ Open
    \/ RunAgentOnce
    \/ SanitizeLoaded
    \/ EnsureSystem
    \/ ResumeScan
    \/ ResumeTool
    \/ SanitizeResumed
    \/ AppendUser
    \/ LoopHead
    \/ ChatFails
    \/ ChatReturns
    \/ ExecuteTool

Spec == Init /\ [][Next]_vars

----------------------------------------------------------------------------
\* main.py, the cmd command: a command template is loaded, the context is
\* built for it and one turn runs.

Commands ==
    { CommandSpec(a, m, n) : a \in {None, "short"}, m \in {None, "deepseek-chat"},
                             n \in {NoSteps, SomeSteps(1)} }

InitCmd ==
    /\ disk \in {DumpAll(s) : s \in SeedSessions}
    /\ mem = <<>>
    /\ provider = [provider_name |-> None, model |-> None]
    /\ agent = General
    /\ cli = Cli(FALSE, FALSE, FALSE)
    /\ permissions = from_env(<<>>, General, Cli(FALSE, FALSE, FALSE))
    /\ pc = "cmd"
    /\ user_prompt = None /\ max_steps = 0 /\ resume = FALSE
    /\ policy = CompactionPolicy
    /\ OsAtRest
    /\ step = 0 /\ final_text = "" /\ attempt = 0 /\ last_err = None /\ chats = 0
    /\ calls = <<>> /\ pending = <<>> /\ ret = None /\ trace = <<>>
    /\ uid = 0 /\ turns = 0 /\ texts = <<>> /\ base = 0
    /\ command \in Commands

\* Lines 265-309: the agent, model and step limit are chosen, from_env
\* builds the context and opens the session, the agent profile is patched
\* (lines 302-306) and run_agent_once is called.
Cmd ==
    /\ pc = "cmd"
    /\ \E cfg \in Providers, yes \in BOOLEAN, no_bash \in BOOLEAN,
          r \in BOOLEAN, steps \in 1..MaxStepsArg :
         LET chosen_agent == IF command.agent = "short" THEN Short ELSE General
             chosen_model == IF command.model # None THEN command.model ELSE cfg.model
             chosen_max_steps == IF command.max_steps.some
                                 THEN command.max_steps.v ELSE steps
             set_model == AgentProfile_setattr(chosen_agent, "model", command.model)
             set_steps == AgentProfile_setattr(chosen_agent, "max_steps", command.max_steps)
         IN  /\ provider' = [cfg EXCEPT !.model = chosen_model]
             /\ cli' = Cli(yes, no_bash, FALSE)
             /\ permissions' = from_env(<<>>, chosen_agent, cli')
             /\ IF read_text_raises(disk)
                THEN /\ Raise("UnicodeDecodeError")
                     /\ agent' = chosen_agent
                     /\ UNCHANGED <<mem, user_prompt, max_steps, resume, turns>>
                ELSE /\ mem' = SessionStore_open(disk)
                     /\ IF command.model # None /\ set_model.raised
                        THEN /\ Raise("FrozenInstanceError")
                             /\ agent' = set_model.obj
                             /\ UNCHANGED <<user_prompt, max_steps, resume, turns>>
                        ELSE IF command.max_steps.some /\ set_steps.raised
                        THEN /\ Raise("FrozenInstanceError")
                             /\ agent' = set_steps.obj
                             /\ UNCHANGED <<user_prompt, max_steps, resume, turns>>
                        ELSE /\ agent' = chosen_agent
                             /\ user_prompt' = "u"
                             /\ max_steps' = chosen_max_steps
                             /\ resume' = r
                             /\ turns' = turns + 1
                             /\ ret' = None
                             /\ pc' = "sanitize"
    /\ UNCHANGED <<disk, mcp_clients, os, policy, locals, trace, uid, texts, base, command>>

NextCmd ==
    \/ Cmd
    \/ SanitizeLoaded
    \/ EnsureSystem
    \/ ResumeScan
    \/ ResumeTool
    \/ SanitizeResumed
    \/ AppendUser
    \/ LoopHead
    \/ ChatFails
    \/ ChatReturns
    \/ ExecuteTool

SpecCmd == InitCmd /\ [][NextCmd]_vars

----------------------------------------------------------------------------
\* main.py, continue-run: after a run on a new session ended in a protocol
\* violation that left tool calls pending, a new process opens the session
\* and calls run_agent_once(user_prompt=None, resume=True) (lines 354-403),
\* with the options of the first run.

InitResume == Init /\ disk = <<>>

ContinueRun ==
    /\ pc = "raised"
    /\ ret = "Protocol violation"
    /\ ResumePending(SessionStore_open(disk)) # <<>>
    /\ turns < MaxRuns
    /\ turns' = turns + 1
    /\ mem' = SessionStore_open(disk)
    /\ user_prompt' = None
    /\ max_steps' \in 1..MaxStepsArg
    /\ resume' = TRUE
    /\ policy' = CompactionPolicy
    /\ step' = 0 /\ final_text' = "" /\ attempt' = 0
    /\ last_err' = None /\ chats' = 0
    /\ calls' = <<>> /\ pending' = <<>>
    /\ ret' = None
    /\ texts' = <<>> /\ base' = 0
    /\ pc' = "sanitize"
    /\ UNCHANGED <<disk, ctx, os, trace, uid, command>>

NextResume ==
    \/ Next
    \/ ContinueRun

SpecResume == InitResume /\ [][NextResume]_vars

----------------------------------------------------------------------------
\* The event log fails. EventStore.append (events/store.py 43-46) opens the
\* file and writes with no exception handler, and no caller in runner.py
\* catches: the exception leaves run_agent_once at the statement that writes
\* the event, after what the iteration did before it.

EventAppendRaises ==
    /\ Raise("OSError")
    /\ \/ \* session.cleaned_invalid_tool_messages (lines 109-115)
          /\ pc \in {"sanitize", "clean2"}
          /\ clean_invalid_tool_messages(mem) # mem
          /\ mem' = clean_invalid_tool_messages(mem)
          /\ UNCHANGED <<disk, last_err, trace, texts>>
       \/ \* resume.aborted_non_tool_after_assistant, resume.pending_tools
          /\ pc = "resume"
          /\ ResumeWritesEvent(mem)
          /\ UNCHANGED <<mem, disk, last_err, trace, texts>>
       \/ \* resume.tool_result (lines 261-272), after tool.execute
          /\ pc = "resume_exec"
          /\ \E answer \in BOOLEAN, raises \in BOOLEAN :
               LET r == ExecuteCall(Head(pending), mem, permissions, answer, raises, " (resume)")
               IN  /\ Len(r.events) = 2
                   /\ trace' = trace \o r.events
          /\ UNCHANGED <<mem, disk, last_err, texts>>
       \/ \* llm.request (lines 358-368)
          /\ pc = "loop"
          /\ step < StepLimit(agent, max_steps)
          /\ (IF agent.model # None THEN agent.model ELSE provider.model) # "deepseek-reasoner"
          /\ LET prompt_res == build_prompt_messages(mem, agent.system_prompt, policy)
             IN  /\ validate_openai_messages(clean_invalid_tool_dict_messages(prompt_res.messages))
                 /\ IF prompt_res.summarized
                    THEN SessionAppend(prompt_res.new_summary_message)
                    ELSE UNCHANGED <<mem, disk>>
          /\ UNCHANGED <<last_err, trace, texts>>
       \/ \* llm.error (lines 403-407), after a failed provider call
          /\ pc = "llm"
          /\ last_err' \in ProviderErrors
          /\ UNCHANGED <<mem, disk, trace, texts>>
       \/ \* llm.response (lines 418-430), before the assistant message
          /\ pc = "llm"
          /\ last_err' = None
          /\ UNCHANGED <<mem, disk, trace, texts>>
       \/ \* llm.empty_response (lines 507-511), after the assistant message
          /\ pc = "llm"
          /\ last_err' = None
          /\ SessionAppend(AssistantText(""))
          /\ texts' = Append(texts, "")
          /\ UNCHANGED trace
       \/ \* tool.missing, tool.call, tool.denied, tool.result (lines 526-581)
          /\ pc = "tools"
          /\ \/ UNCHANGED trace
             \/ \E answer \in BOOLEAN, raises \in BOOLEAN :
                  LET r == ExecuteCall(Head(calls), mem, permissions, answer, raises, "")
                  IN  /\ r.events # <<>>
                      /\ trace' = trace \o r.events
          /\ UNCHANGED <<mem, disk, last_err, texts>>
    /\ UNCHANGED <<ctx, os, args, step, final_text, attempt, chats, calls, pending,
                   uid, turns, base, command>>

NextEvents ==
    \/ Next
    \/ EventAppendRaises

SpecEvents == Init /\ [][NextEvents]_vars

----------------------------------------------------------------------------
\* The sanitizer applied twice to a loaded session file.

SanitizerMsgs ==
    { UserMsg("u"), AssistantText("hi"), AssistantCalls(None, <<ReadCall(1)>>),
      AssistantCalls(None, <<>>), ToolMsg("result", 1), ToolMsg("result", 0) }

MsgSeqs == UNION { [1..n -> SanitizerMsgs] : n \in 0..MaxLen }

\* The arguments and locals of run_agent_once before any invocation.
AtRest ==
    /\ provider = [provider_name |-> None, model |-> None]
    /\ user_prompt = None
    /\ max_steps = 0
    /\ resume = FALSE
    /\ step = 0
    /\ final_text = ""
    /\ attempt = 0
    /\ last_err = None
    /\ chats = 0
    /\ calls = <<>>
    /\ pending = <<>>
    /\ ret = None
    /\ trace = <<>>
    /\ uid = 0
    /\ turns = 0 /\ texts = <<>> /\ base = 0 /\ command = NoCommand

InitSanitizer ==
    /\ \E msgs \in MsgSeqs : disk = DumpAll(msgs)
    /\ mem = SessionStore_open(disk)
    /\ agent = General
    /\ cli = Cli(FALSE, FALSE, FALSE)
    /\ permissions = from_env(<<>>, General, Cli(FALSE, FALSE, FALSE))
    /\ pc = "sanitize"
    /\ AtRest
    /\ policy = CompactionPolicy
    /\ OsAtRest

\* _clean_invalid_tool_messages is called once more on its own result.
SanitizeAgain ==
    /\ pc = "system"
    /\ mem' = clean_invalid_tool_messages(mem)
    /\ pc' = "sanitized"
    /\ UNCHANGED <<disk, ctx, os, args, locals, ret, trace, uid, turns, texts, base, command>>

NextSanitizer ==
    \/ SanitizeLoaded
    \/ SanitizeAgain

SpecSanitizer == InitSanitizer /\ [][NextSanitizer]_vars

----------------------------------------------------------------------------
\* The session store: appends, a process killed inside a write, re-opening.

StoreMsgs ==
    { UserMsg("u"), AssistantText(LS), AssistantCalls(None, <<ReadCall(1)>>) }

InitStore ==
    /\ disk = <<>>
    /\ mem = <<>>
    /\ agent = General
    /\ cli = Cli(FALSE, FALSE, FALSE)
    /\ permissions = from_env(<<>>, General, Cli(FALSE, FALSE, FALSE))
    /\ pc = "store"
    /\ AtRest
    /\ policy = CompactionPolicy
    /\ OsAtRest

\* SessionStore.append (lines 44-57).
StoreAppend ==
    /\ pc = "store"
    /\ Len(disk) < MaxLines
    /\ \E m \in StoreMsgs : SessionAppend(m)
    /\ UNCHANGED <<ctx, os, pc, args, locals, ret, trace, uid, turns, texts, base, command>>

\* The process is terminated inside f.write (line 49): a prefix of the line
\* is in the file, cut between two characters or inside one.
StoreKilled ==
    /\ pc = "store"
    /\ Len(disk) < MaxLines
    /\ \E torn \in BOOLEAN : disk' = file_write(disk, PartialLine(torn))
    /\ pc' = "killed"
    /\ UNCHANGED <<mem, ctx, os, args, locals, ret, trace, uid, turns, texts, base, command>>

\* SessionStore.open on the same session id (lines 26-42).
StoreReopen ==
    /\ pc \in {"store", "killed"}
    /\ IF read_text_raises(disk)
       THEN Raise("UnicodeDecodeError") /\ UNCHANGED mem
       ELSE /\ mem' = SessionStore_open(disk)
            /\ pc' = "store"
            /\ UNCHANGED ret
    /\ UNCHANGED <<disk, ctx, os, args, locals, trace, uid, turns, texts, base, command>>

NextStore ==
    \/ StoreAppend
    \/ StoreKilled
    \/ StoreReopen

SpecStore == InitStore /\ [][NextStore]_vars

----------------------------------------------------------------------------
\* The permission engine: a context built by AppContext.from_env from
\* config rules, an agent profile and CLI flags, then one decision.

RulePatterns ==
    { AnyRule("edit"), AnyRule("bash"), AnyRule("*"), ToolRule("edit"), ToolRule("write") }

Rules == { PermissionRule(m, d) : m \in RulePatterns, d \in {"allow", "ask", "deny"} }

RuleSeqs == UNION { [1..n -> Rules] : n \in 0..MaxRules }

InitPermissions ==
    /\ disk = <<>>
    /\ mem = <<>>
    /\ agent \in {General, Plan, Run}
    /\ \E yes \in BOOLEAN, no_bash \in BOOLEAN, allow_edit \in BOOLEAN :
         cli = Cli(yes, no_bash, allow_edit)
    /\ \E rules \in RuleSeqs : permissions = from_env(rules, agent, cli)
    /\ pc = "gate"
    /\ AtRest
    /\ policy = CompactionPolicy
    /\ OsAtRest

\* ctx.permissions.decide(tool.spec.permission_key, tool.spec.name, preview):
\* ret is what PermissionConfig.decide returns inside it.
GateDecide ==
    /\ pc = "gate"
    /\ \E tool \in DOMAIN ToolSpecs, answer \in BOOLEAN :
         /\ ret' = PermissionConfig_decide(permissions, permission_key(tool), tool)
         /\ trace' = (IF GatePrompts(permissions, permission_key(tool), tool)
                       THEN <<PromptEvent(ToolCall(0, tool), answer)>>
                       ELSE <<>>)
                      \o <<GateEvent(ToolCall(0, tool),
                                     PermissionGate_decide(permissions, permission_key(tool),
                                                           tool, answer))>>
    /\ pc' = "decided"
    /\ UNCHANGED <<disk, mem, ctx, os, args, locals, uid, turns, texts, base, command>>

\* The rule list of the behavior config with one more deny rule, at any
\* position of the list; the rules reach the engine through apply_behavior.
InsertAt(xs, k, x) == SubSeq(xs, 1, k) \o <<x>> \o SubSeq(xs, k + 1, Len(xs))

AddDenyRule ==
    /\ pc = "decided"
    /\ \E m \in RulePatterns, k \in 0..Len(permissions.rules) :
         permissions' = [permissions EXCEPT
                            !.rules = InsertAt(@, k, PermissionRule(m, "deny"))]
    /\ pc' = "added"
    /\ UNCHANGED <<disk, mem, provider, agent, cli, mcp_clients, os, args, locals, ret,
                   trace, uid, turns, texts, base, command>>

\* The same call decided again under the longer rule list; ret still holds
\* the earlier decision when the action starts.
GateDecideAgain ==
    /\ pc = "added"
    /\ LET tool == trace[Len(trace)].name
       IN  ret' = PermissionConfig_decide(permissions, permission_key(tool), tool)
    /\ pc' = "redecided"
    /\ UNCHANGED <<disk, mem, ctx, os, args, locals, trace, uid, turns, texts, base, command>>

NextPermissions ==
    \/ GateDecide
    \/ AddDenyRule
    \/ GateDecideAgain

SpecPermissions == InitPermissions /\ [][NextPermissions]_vars

----------------------------------------------------------------------------
\* mcp/client.py: one MCPClient, its child process, its reader thread and
\* the threads that call request().

Threads == 1..MaxThreads

\* A line on the child's stdout. A reply carries the id of a request, result
\* or error, and a payload val (the serial number of the line, so that two
\* replies are never equal). A line that json.loads rejects, that is no dict
\* with an "id", or whose id int() rejects, is "garbage".
NoMsg == [id |-> 0, kind |-> "none", val |-> 0]
Garbage(n) == [id |-> 0, kind |-> "garbage", val |-> n]
Reply(id, kind, n) == [id |-> id, kind |-> kind, val |-> n]

\* MCPClient.__init__
MCPClient ==
    [_id_iter |-> 1, _lock |-> 0, _pending |-> <<>>,
     _reader |-> [pc |-> "read", msg |-> NoMsg]]
Popen ==
    [alive |-> TRUE, terminated |-> FALSE, reading |-> TRUE, stdin |-> <<>>,
     stdout |-> <<>>, emitted |-> <<>>]
IdleThread == [pc |-> "idle", rid |-> 0, ev |-> FALSE, holder |-> NoMsg, ok |-> FALSE]

\* self._pending.pop(rid, None)
pending_pop(table, rid) == [r \in DOMAIN table \ {rid} |-> table[r]]

\* Lines 83-85: the entry is removed whatever ev.wait returned.
PendingAfterWait_KeepsOnTimeout(table, rid, ok) ==
    IF ok THEN pending_pop(table, rid) ELSE table
PendingAfterWait(table, rid, ok) == pending_pop(table, rid)

\* Lines 66-67: the key of the entry the reader finds for mid (0: none).
pending_get_AnyEntry(table, mid) ==
    IF DOMAIN table = {} THEN 0
    ELSE CHOOSE r \in DOMAIN table : \A q \in DOMAIN table : r <= q
pending_get(table, mid) ==
    IF mid \in DOMAIN table THEN mid ELSE 0

\* Lines 86-91: what request() does once the entry is removed.
Outcome(rid, ok, msg) ==
    IF ~ok THEN [ev |-> "mcp", id |-> rid, kind |-> "TimeoutError", val |-> 0]
    ELSE IF msg.kind = "error"
    THEN [ev |-> "mcp", id |-> rid, kind |-> "RuntimeError", val |-> msg.val]
    ELSE [ev |-> "mcp", id |-> rid, kind |-> "return", val |-> msg.val]

InitMcp ==
    /\ disk = <<>>
    /\ mem = <<>>
    /\ agent = General
    /\ cli = Cli(FALSE, FALSE, FALSE)
    /\ permissions = from_env(<<>>, General, Cli(FALSE, FALSE, FALSE))
    /\ policy = CompactionPolicy
    /\ mcp_clients = <<MCPClient>>
    /\ procs = <<Popen>>
    /\ threads = [t \in Threads |-> IdleThread]
    /\ files = <<>>
    /\ pc = "mcp"
    /\ AtRest

McpFrame == <<disk, mem, provider, permissions, agent, cli, files, pc, args, locals,
              ret, uid, turns, texts, base, command>>

\* Lines 75-78: next(self._id_iter), a fresh Event and holder.
RequestBegin(t) ==
    /\ threads[t].pc = "idle"
    /\ mcp_clients[1]._id_iter <= MaxRequests
    /\ threads' = [threads EXCEPT ![t] =
                      [pc |-> "lock", rid |-> mcp_clients[1]._id_iter, ev |-> FALSE,
                       holder |-> NoMsg, ok |-> FALSE]]
    /\ mcp_clients' = [mcp_clients EXCEPT ![1]._id_iter = @ + 1]
    /\ UNCHANGED <<McpFrame, procs, trace>>

\* Lines 79-80: the lock is taken and the entry registered.
RequestRegister(t) ==
    /\ threads[t].pc = "lock"
    /\ mcp_clients[1]._lock = 0
    /\ mcp_clients' = [mcp_clients EXCEPT
                          ![1]._lock = t,
                          ![1]._pending = (threads[t].rid :> t) @@ @]
    /\ threads' = [threads EXCEPT ![t].pc = "write"]
    /\ UNCHANGED <<McpFrame, procs, trace>>

\* Lines 81-82, inside the lock: write and flush block while the pipe is
\* full and raise BrokenPipeError when the child has exited; the exception
\* leaves the with block (the lock is released, the entry stays).
RequestWrite(t) ==
    /\ threads[t].pc = "write"
    /\ IF ~procs[1].alive
       THEN /\ trace' = Append(trace, [ev |-> "mcp", id |-> threads[t].rid,
                                       kind |-> "BrokenPipeError", val |-> 0])
            /\ threads' = [threads EXCEPT ![t].pc = "idle"]
            /\ UNCHANGED procs
       ELSE /\ Len(procs[1].stdin) < PipeCap
            /\ procs' = [procs EXCEPT ![1].stdin = Append(@, threads[t].rid)]
            /\ threads' = [threads EXCEPT ![t].pc = "wait"]
            /\ UNCHANGED trace
    /\ mcp_clients' = [mcp_clients EXCEPT ![1]._lock = 0]
    /\ UNCHANGED McpFrame

\* Line 83: ev.wait(timeout) returns True once the event is set, False when
\* the timeout elapses first.
RequestWait(t) ==
    /\ threads[t].pc = "wait"
    /\ threads' = [threads EXCEPT ![t].ok = threads[t].ev, ![t].pc = "pop"]
    /\ UNCHANGED <<McpFrame, mcp_clients, procs, trace>>

\* Lines 84-91.
RequestFinish(t) ==
    /\ threads[t].pc = "pop"
    /\ mcp_clients[1]._lock = 0
    /\ mcp_clients' = [mcp_clients EXCEPT
                          ![1]._pending = PendingAfterWait(@, threads[t].rid, threads[t].ok)]
    /\ trace' = Append(trace, Outcome(threads[t].rid, threads[t].ok, threads[t].holder))
    /\ threads' = [threads EXCEPT ![t].pc = "idle"]
    /\ UNCHANGED <<McpFrame, procs>>

\* Lines 55-65: the reader takes the next line; a line it cannot use is
\* skipped.
ReaderReads ==
    /\ mcp_clients[1]._reader.pc = "read"
    /\ procs[1].stdout # <<>>
    /\ procs' = [procs EXCEPT ![1].stdout = Tail(@)]
    /\ mcp_clients' = [mcp_clients EXCEPT ![1]._reader =
                          IF Head(procs[1].stdout).kind = "garbage" THEN @
                          ELSE [pc |-> "dispatch", msg |-> Head(procs[1].stdout)]]
    /\ UNCHANGED <<McpFrame, threads, trace>>

\* Lines 66-70, under the lock. The Event and holder of an entry whose
\* request has already raised (BrokenPipeError) are referenced by the table
\* alone: setting them is seen by no thread.
ReaderDispatch ==
    /\ mcp_clients[1]._reader.pc = "dispatch"
    /\ mcp_clients[1]._lock = 0
    /\ LET msg == mcp_clients[1]._reader.msg
           table == mcp_clients[1]._pending
           r == pending_get(table, msg.id)
       IN  threads' = IF r = 0 \/ threads[table[r]].rid # r
                      THEN threads
                      ELSE [threads EXCEPT ![table[r]].holder = msg,
                                           ![table[r]].ev = TRUE]
    /\ mcp_clients' = [mcp_clients EXCEPT ![1]._reader.pc = "read"]
    /\ UNCHANGED <<McpFrame, procs, trace>>

\* Line 55: end of file on the child's stdout ends the reader thread.
ReaderEof ==
    /\ mcp_clients[1]._reader.pc = "read"
    /\ procs[1].stdout = <<>>
    /\ ~procs[1].alive
    /\ mcp_clients' = [mcp_clients EXCEPT ![1]._reader.pc = "eof"]
    /\ UNCHANGED <<McpFrame, procs, threads, trace>>

\* The child process: it reads a request, writes a line, stops reading its
\* stdin, or exits.
ServerReads ==
    /\ procs[1].alive /\ procs[1].reading
    /\ procs[1].stdin # <<>>
    /\ procs' = [procs EXCEPT ![1].stdin = Tail(@)]
    /\ UNCHANGED <<McpFrame, mcp_clients, threads, trace>>

ServerWrites ==
    /\ procs[1].alive
    /\ Len(procs[1].emitted) < MaxReplies
    /\ \E line \in {Garbage(Len(procs[1].emitted) + 1)} \cup
                   {Reply(id, kind, Len(procs[1].emitted) + 1) :
                        id \in 1..MaxRequests, kind \in {"result", "error"}} :
         procs' = [procs EXCEPT ![1].stdout = Append(@, line),
                                ![1].emitted = Append(@, line)]
    /\ UNCHANGED <<McpFrame, mcp_clients, threads, trace>>

ServerStopsReading ==
    /\ procs[1].alive /\ procs[1].reading
    /\ procs' = [procs EXCEPT ![1].reading = FALSE]
    /\ UNCHANGED <<McpFrame, mcp_clients, threads, trace>>

ServerExits ==
    /\ procs[1].alive
    /\ procs' = [procs EXCEPT ![1].alive = FALSE]
    /\ UNCHANGED <<McpFrame, mcp_clients, threads, trace>>

Request(t) ==
    \/ RequestBegin(t)
    \/ RequestRegister(t)
    \/ RequestWrite(t)
    \/ RequestWait(t)
    \/ RequestFinish(t)

Reader ==
    \/ ReaderReads
    \/ ReaderDispatch
    \/ ReaderEof

NextMcp ==
    \/ \E t \in Threads : Request(t)
    \/ Reader
    \/ ServerReads
    \/ ServerWrites
    \/ ServerStopsReading
    \/ ServerExits

SpecMcp == InitMcp /\ [][NextMcp]_vars

\* The scheduler runs every thread that can take a step; the child process
\* owes nothing.
SpecMcpLive ==
    /\ SpecMcp
    /\ \A t \in Threads : WF_vars(Request(t))
    /\ WF_vars(Reader)

----------------------------------------------------------------------------
\* app_context.py and mcp/bridge.py: AppContext.from_env starts the MCP
\* servers of the behavior config, and AppContext.close ends them.
\* threads[1] is the frame of register_mcp_servers: the number of servers
\* it was given, its loop position and its local list clients (indexes of
\* procs).

InitContext ==
    /\ disk = <<>>
    /\ mem = <<>>
    /\ agent = General
    /\ cli = Cli(FALSE, FALSE, FALSE)
    /\ permissions = from_env(<<>>, General, Cli(FALSE, FALSE, FALSE))
    /\ policy = CompactionPolicy
    /\ mcp_clients = <<>>
    /\ procs = <<>>
    /\ \E n \in 0..MaxServers : threads = <<[servers |-> n, s |-> 1, clients |-> <<>>]>>
    /\ files = <<>>
    /\ pc = IF threads[1].servers = 0 THEN "built" ELSE "mcp_spawn"
    /\ AtRest

CtxFrame == <<disk, mem, provider, permissions, agent, cli, files, args, locals,
              ret, trace, uid, turns, texts, base, command>>

\* bridge.py line 23: MCPClient(s.command, ...) starts the child, or Popen
\* raises (command not found): the exception leaves register_mcp_servers
\* and from_env sets mcp_clients = [] (app_context.py lines 92-94).
SpawnServer ==
    /\ pc = "mcp_spawn"
    /\ \/ /\ procs' = Append(procs, Popen)
          /\ threads' = [threads EXCEPT ![1].clients = Append(@, Len(procs) + 1)]
          /\ pc' = "mcp_list"
          /\ UNCHANGED mcp_clients
       \/ /\ mcp_clients' = <<>>
          /\ pc' = "built"
          /\ UNCHANGED <<procs, threads>>
    /\ UNCHANGED CtxFrame

\* bridge.py lines 25-34: client.list_tools() and registry.register for each
\* tool; either raises (timeout, error reply, a tool name registered twice).
\* After the last server the list clients is returned into ctx.mcp_clients.
ListAndRegister ==
    /\ pc = "mcp_list"
    /\ \/ /\ threads[1].s < threads[1].servers
          /\ threads' = [threads EXCEPT ![1].s = @ + 1]
          /\ pc' = "mcp_spawn"
          /\ UNCHANGED mcp_clients
       \/ /\ threads[1].s = threads[1].servers
          /\ mcp_clients' = threads[1].clients
          /\ pc' = "built"
          /\ UNCHANGED threads
       \/ /\ mcp_clients' = <<>>
          /\ pc' = "built"
          /\ UNCHANGED threads
    /\ UNCHANGED <<CtxFrame, procs>>

\* A child process exits on its own.
ChildExits ==
    /\ pc \in {"mcp_spawn", "mcp_list", "built"}
    /\ \E i \in 1..Len(procs) :
         /\ procs[i].alive
         /\ procs' = [procs EXCEPT ![i].alive = FALSE]
    /\ UNCHANGED <<CtxFrame, mcp_clients, threads, pc>>

\* MCPClient.close: terminate is sent when poll() is None.
MCPClient_close(proc) ==
    IF proc.alive THEN [proc EXCEPT !.terminated = TRUE, !.alive = FALSE] ELSE proc

\* AppContext.close: the clients of self.mcp_clients are closed.
close(ps, clients) ==
    [i \in 1..Len(ps) |->
        IF \E k \in 1..Len(clients) : clients[k] = i THEN MCPClient_close(ps[i]) ELSE ps[i]]

ContextClose ==
    /\ pc = "built"
    /\ procs' = close(procs, mcp_clients)
    /\ pc' = "ctx_closed"
    /\ UNCHANGED <<CtxFrame, mcp_clients, threads>>

NextContext ==
    \/ SpawnServer
    \/ ListAndRegister
    \/ ChildExits
    \/ ContextClose

SpecContext == InitContext /\ [][NextContext]_vars

----------------------------------------------------------------------------
\* The prompt builder applied to a session as run_agent_once holds it
\* before an LLM step (sanitized, system prompt first), under the default
\* policy and under small policies.

Summary == SystemMsg(SUMMARY_NAME, "summary")

\* Long sessions: nsys system messages (the system prompt, then summaries)
\* followed by k user and assistant messages.
LongSession(nsys, k) ==
    [i \in 1..(nsys + k) |->
        IF i = 1 /\ nsys > 0 THEN Sys
        ELSE IF i <= nsys THEN Summary
        ELSE IF (i - nsys) % 2 = 1 THEN UserMsg("u") ELSE AssistantText("hi")]

LongSessions ==
    { LongSession(nsys, k) : nsys \in {1, 2, max_messages - 1, max_messages, max_messages + 1},
                             k \in 0..(summarize_when_over + MaxLen) }

PromptMsgs ==
    { Summary, UserMsg("u"), AssistantText("hi"), AssistantCalls(None, <<ReadCall(1)>>),
      ToolMsg("result", 1) }

\* Lines 288-296 of runner.py: the sanitizer, then the system prompt is
\* appended when the session has no system message.
Prepared(msgs) ==
    LET cleaned == clean_invalid_tool_messages(msgs)
    IN  IF \E i \in 1..Len(cleaned) : cleaned[i].role = "system"
        THEN cleaned ELSE Append(cleaned, Sys)

ShortSessions == { Prepared(s) : s \in UNION { [1..n -> PromptMsgs] : n \in 0..MaxLen } }

SmallPolicies ==
    { [max_messages |-> m, summarize_when_over |-> w,
       max_tool_result_chars |-> 12000, max_message_chars |-> 20000] :
          m \in 1..MaxWindow, w \in 1..(MaxWindow + 2) }

InitPrompt ==
    /\ disk = <<>>
    /\ \/ policy = CompactionPolicy /\ mem \in LongSessions
       \/ policy \in SmallPolicies /\ mem \in ShortSessions
    /\ agent = General
    /\ cli = Cli(FALSE, FALSE, FALSE)
    /\ permissions = from_env(<<>>, General, Cli(FALSE, FALSE, FALSE))
    /\ OsAtRest
    /\ pc = "prompt"
    /\ provider = [provider_name |-> None, model |-> None]
    /\ user_prompt = None /\ max_steps = 0 /\ resume = FALSE
    /\ step = 0 /\ final_text = "" /\ attempt = 0 /\ last_err = None /\ chats = 0
    /\ calls = <<>> /\ pending = <<>> /\ ret = None /\ trace = <<>>
    /\ uid = 0 /\ turns = 0 /\ texts = <<>> /\ base = 0 /\ command = NoCommand

\* The calls made to the provider: the summarizer's (summarizer.py) and the
\* step's own (runner.py line 397).
SummarizeEvent == [ev |-> "summarize"]
ChatEvent == [ev |-> "chat"]

\* What an LLM step that does not end the loop appends to the session: an
\* empty turn, or a turn with one call and the reply of its tool.
StepMessages ==
    { <<AssistantText("")>>,
      <<AssistantCalls(None, <<ReadCall(1)>>), ToolMsg("result", 1)>> }

\* Lines 339-349 of runner.py: ret is prompt_res.messages; the builder calls
\* the summarizer when it summarizes (builder.py line 101).
BuildPrompt ==
    /\ pc = "prompt"
    /\ LET prompt_res == build_prompt_messages(mem, agent.system_prompt, policy)
       IN  /\ ret' = prompt_res.messages
           /\ trace' = IF prompt_res.summarized
                       THEN Append(trace, SummarizeEvent) ELSE trace
    /\ pc' = "prompt_built"
    /\ UNCHANGED <<disk, mem, ctx, os, args, locals, uid, turns, texts, base, command>>

\* Lines 351-352, the new summary is appended to the session; then the
\* provider is called and the step appends its messages (lines 463, 602).
PromptStep ==
    /\ pc = "prompt_built"
    /\ step < MaxBuilds - 1
    /\ LET prompt_res == build_prompt_messages(mem, agent.system_prompt, policy)
           persisted == IF prompt_res.summarized
                        THEN Append(mem, prompt_res.new_summary_message) ELSE mem
       IN  \E appended \in StepMessages : mem' = persisted \o appended
    /\ trace' = Append(trace, ChatEvent)
    /\ step' = step + 1
    /\ pc' = "prompt"
    /\ UNCHANGED <<disk, ctx, os, args, final_text, attempt, last_err, chats, calls,
                   pending, ret, uid, turns, texts, base, command>>

NextPrompt == BuildPrompt \/ PromptStep

SpecPrompt == InitPrompt /\ [][NextPrompt]_vars

----------------------------------------------------------------------------
\* runner.py lines 583-604: a tool result is truncated and appended to the
\* session. A text is the sequence of its characters; the characters of a
\* tool result are numbered by position and the 23 characters of the marker
\* "\n\n... (truncated) ...\n\n" are 0.

MARKER == [i \in 1..23 |-> 0]

Text(n) == [i \in 1..n |-> i]

\* Python's text[:k] for k >= 0 and text[k:] for k <= 0.
SliceTo(text, k) == SubSeq(text, 1, IF k < Len(text) THEN k ELSE Len(text))
SliceFrom(text, k) == SubSeq(text, (IF -k < Len(text) THEN Len(text) + k + 1 ELSE 1), Len(text))

\* Lines 584-590; -cap // 2 is floor(-cap / 2).
truncate_tool_result(content, cap) ==
    IF content # <<>> /\ Len(content) > cap
    THEN SliceTo(content, cap \div 2) \o MARKER \o SliceFrom(content, (-cap) \div 2)
    ELSE content

InitTruncate ==
    /\ disk = <<>>
    /\ mem = <<Sys, UserMsg("u"), AssistantCalls(None, <<ReadCall(1)>>)>>
    /\ \E cap \in (Len(MARKER) + 1)..MaxCap :
         policy = [CompactionPolicy EXCEPT !.max_tool_result_chars = cap]
    /\ agent = General
    /\ cli = Cli(FALSE, FALSE, FALSE)
    /\ permissions = from_env(<<>>, General, Cli(FALSE, FALSE, FALSE))
    /\ OsAtRest
    /\ pc = "tool_result"
    /\ provider = [provider_name |-> None, model |-> None]
    /\ user_prompt = None /\ max_steps = 0 /\ resume = FALSE
    /\ step = 0 /\ final_text = "" /\ attempt = 0 /\ last_err = None /\ chats = 0
    /\ calls = <<>> /\ pending = <<>> /\ trace = <<>>
    /\ \E n \in 0..MaxChars : ret = Text(n)
    /\ uid = 0 /\ turns = 0 /\ texts = <<>> /\ base = 0 /\ command = NoCommand

\* ret is res.content as the tool returned it; the tool message appended to
\* the session holds what is persisted.
PersistToolResult ==
    /\ pc = "tool_result"
    /\ mem' = Append(mem, ToolMsg(truncate_tool_result(ret, policy.max_tool_result_chars), 1))
    /\ pc' = "persisted"
    /\ UNCHANGED <<disk, ctx, os, args, locals, ret, trace, uid, turns, texts, base, command>>

NextTruncate == PersistToolResult

SpecTruncate == InitTruncate /\ [][NextTruncate]_vars

----------------------------------------------------------------------------
\* tools/builtin_tools/file_edit.py and file_multiedit.py. files is the file
\* the call names: its lines (text.splitlines()) and whether the text ends
\* with a newline. calls holds the multiedit call; its arguments are the
\* edits, new_text being given by its lines.

ToolResult(content, is_error) == [content |-> content, is_error |-> is_error]

\* p.write_text("\n".join(merged) + ("\n" if text.endswith("\n") else "")),
\* as the next read splits it.
write_text(merged, nl) ==
    IF merged = <<>> /\ nl THEN [lines |-> <<"">>, nl |-> TRUE]
    ELSE [lines |-> merged, nl |-> nl]

\* EditFileTool.execute: the file afterwards and the result.
EditFileTool_execute(file, e) ==
    LET start == e.start_line
        lines == file.lines
        end == IF e.end_line < Len(lines) THEN e.end_line ELSE Len(lines)
    IN  IF start < 1 \/ e.end_line < start \/ start > Len(lines) + 1
        THEN [file |-> file, res |-> ToolResult("Invalid line range", TRUE)]
        ELSE [file |-> write_text(SubSeq(lines, 1, start - 1) \o e.new_text
                                      \o SubSeq(lines, end + 1, Len(lines)), file.nl),
              res |-> ToolResult("Edited", FALSE)]

\* sorted(ranges, key=lambda x: x[0]): a stable sort by start line.
RECURSIVE InsertByStart(_, _)
InsertByStart(sorted, e) ==
    IF sorted = <<>> THEN <<e>>
    ELSE IF sorted[Len(sorted)].start_line <= e.start_line THEN Append(sorted, e)
    ELSE Append(InsertByStart(SubSeq(sorted, 1, Len(sorted) - 1), e), sorted[Len(sorted)])

RECURSIVE SortedByStart(_)
SortedByStart(ranges) ==
    IF ranges = <<>> THEN <<>>
    ELSE InsertByStart(SortedByStart(SubSeq(ranges, 1, Len(ranges) - 1)), ranges[Len(ranges)])

Ranges(edits) ==
    [i \in 1..Len(edits) |-> [start_line |-> edits[i].start_line, end_line |-> edits[i].end_line]]

\* Lines 44-46: zip(ranges, ranges[1:]) with s2 <= e1.
edits_overlap_Strict(ranges) ==
    \E i \in 1..(Len(ranges) - 1) : ranges[i + 1].start_line < ranges[i].end_line
edits_overlap(ranges) ==
    \E i \in 1..(Len(ranges) - 1) : ranges[i + 1].start_line <= ranges[i].end_line

\* Lines 48-53: the edits are applied from the last to the first; the first
\* failing edit ends the loop.
RECURSIVE ApplyReversed(_, _, _)
ApplyReversed(file, edits, k) ==
    IF k = 0 THEN [file |-> file, res |-> ToolResult("Applied", FALSE)]
    ELSE LET r == EditFileTool_execute(file, edits[k])
         IN  IF r.res.is_error THEN r ELSE ApplyReversed(r.file, edits, k - 1)

MultiEditFileTool_execute(file, edits) ==
    IF edits = <<>>
    THEN [file |-> file, res |-> ToolResult("edits must be a non-empty list", TRUE)]
    ELSE IF Ranges(edits) # SortedByStart(Ranges(edits))
    THEN [file |-> file, res |-> ToolResult("edits must be sorted by start_line", TRUE)]
    ELSE IF edits_overlap(Ranges(edits))
    THEN [file |-> file, res |-> ToolResult("edits must not overlap", TRUE)]
    ELSE ApplyReversed(file, edits, Len(edits))

FileLines == <<"l1", "l2", "l3", "l4", "l5">>

Edits ==
    [start_line : 0..(MaxFileLines + 1), end_line : 0..(MaxFileLines + 1),
     new_text : {<<>>, <<"x">>}]

InitMultiEdit ==
    /\ disk = <<>>
    /\ mem = <<>>
    /\ agent = General
    /\ cli = Cli(FALSE, FALSE, FALSE)
    /\ permissions = from_env(<<>>, General, Cli(FALSE, FALSE, FALSE))
    /\ policy = CompactionPolicy
    /\ mcp_clients = <<>> /\ procs = <<>> /\ threads = <<>>
    /\ \E n \in 0..MaxFileLines, nl \in BOOLEAN :
         /\ n = 0 => ~nl
         /\ files = [lines |-> SubSeq(FileLines, 1, n), nl |-> nl]
    /\ pc = "multiedit"
    /\ provider = [provider_name |-> None, model |-> None]
    /\ user_prompt = None /\ max_steps = 0 /\ resume = FALSE
    /\ step = 0 /\ final_text = "" /\ attempt = 0 /\ last_err = None /\ chats = 0
    /\ \E edits \in UNION { [1..n -> Edits] : n \in 0..MaxEdits } :
         calls = <<[id |-> 1, name |-> "multiedit", arguments |-> edits]>>
    /\ pending = <<>> /\ ret = None /\ trace = <<>>
    /\ uid = 0 /\ turns = 0 /\ texts = <<>> /\ base = 0 /\ command = NoCommand

\* tool.execute(tool_ctx, tc.arguments) for the multiedit call.
MultiEdit ==
    /\ pc = "multiedit"
    /\ LET r == MultiEditFileTool_execute(files, calls[1].arguments)
       IN  /\ files' = r.file
           /\ ret' = r.res
    /\ pc' = "edited"
    /\ UNCHANGED <<disk, mem, ctx, procs, threads, args, locals, trace, uid, turns, texts, base, command>>

NextMultiEdit == MultiEdit

SpecMultiEdit == InitMultiEdit /\ [][NextMultiEdit]_vars

----------------------------------------------------------------------------
\* Properties.

CallIds(m) == {m.tool_calls.v[k].id : k \in 1..Len(m.tool_calls.v)}

\* Section 3, invariant 1.
ToolsFollowTheirCall(msgs) ==
    \A i \in 1..Len(msgs) :
        msgs[i].role = "tool" =>
            /\ i > 1
            /\ msgs[i - 1].role = "assistant"
            /\ msgs[i].tool_call_id \in CallIds(msgs[i - 1])

\* Section 3, invariant 2.
ToolsHaveIds(msgs) ==
    \A i \in 1..Len(msgs) : msgs[i].role = "tool" => msgs[i].tool_call_id # 0

\* C1: after run_agent_once has returned, every tool message of the
\* in-memory session directly follows an assistant message whose tool_calls
\* hold the tool message's tool_call_id.
C1_ToolsFollowTheirCall ==
    pc = "returned" => ToolsFollowTheirCall(mem)

\* C2: when run_agent_once has returned or raised, the session file, as
\* SessionStore.open reads it, satisfies invariants 1 and 2: it holds no
\* orphan tool message.
C2_DiskHasNoOrphans ==
    pc \in {"returned", "raised"} =>
        /\ ToolsFollowTheirCall(SessionStore_open(disk))
        /\ ToolsHaveIds(SessionStore_open(disk))

\* C3: every iteration of the loop over turn.tool_calls appends one tool
\* reply carrying the id of the call it processed and goes on to the next
\* call, or to the next LLM step after the last call; so N calls get N
\* replies in the model's order.
C3_EveryCallAnswered ==
    [][pc = "tools" =>
          /\ pc' = (IF Len(calls) > 1 THEN "tools" ELSE "loop")
          /\ calls' = Tail(calls)
          /\ Len(mem') = Len(mem) + 1
          /\ mem'[Len(mem')].role = "tool"
          /\ mem'[Len(mem')].tool_call_id = Head(calls).id]_vars

\* C4: an iteration of the loop over turn.tool_calls whose call names an
\* unregistered tool, is denied by the gate or whose tool raises does not end
\* the turn: it appends a tool reply with the call's id and the turn goes on.
CallFails ==
    \/ Head(calls).name \notin Registered
    \/ /\ Len(trace') > Len(trace)
       /\ ~trace'[Len(trace')].ok
C4_FailedCallIsNotFatal ==
    [][(pc = "tools" /\ CallFails) =>
          /\ pc' \in {"tools", "loop"}
          /\ mem' = Append(mem, mem'[Len(mem')])
          /\ mem'[Len(mem')].role = "tool"
          /\ mem'[Len(mem')].tool_call_id = Head(calls).id
          /\ mem'[Len(mem')].content \in {"not found", "denied", "exception"}]_vars

\* C5: in both loops a tool is executed only directly after the permission
\* gate returned allow for that call; a call the gate denied is not executed.
C5_ExecuteOnlyWhenAllowed ==
    \A i \in 1..Len(trace) :
        trace[i].ev = "exec" =>
            /\ i > 1
            /\ trace[i - 1].ev = "gate"
            /\ trace[i - 1].ok
            /\ trace[i - 1].id = trace[i].id
            /\ trace[i - 1].name = trace[i].name
C5_Witness ==
    /\ pc = "loop"
    /\ \E i, j, k \in 1..Len(trace) :
          /\ i < j /\ j < k
          /\ trace[i].ev = "exec" /\ trace[i].name = "read"
          /\ trace[j].ev = "gate" /\ ~trace[j].ok
          /\ trace[k].ev = "exec" /\ trace[k].name = "bash"

\* C6: with resume requested and a session ending in an assistant message
\* with tool calls followed only by tool replies, the resume phase takes as
\* pending exactly the calls whose ids are not among the replies' ids, and
\* each iteration of its loop appends the reply of one pending call, in call
\* order, until none is left. It is stated for sessions that satisfy
\* invariants 1 and 2 when the resume phase starts.
EndsInCallsAndReplies(msgs) ==
    \E k \in 1..Len(msgs) :
        /\ IsAssistantWithCalls(msgs[k])
        /\ \A j \in (k + 1)..Len(msgs) : msgs[j].role = "tool"
LastCalls(msgs) ==
    CHOOSE k \in 1..Len(msgs) :
        /\ IsAssistantWithCalls(msgs[k])
        /\ \A j \in (k + 1)..Len(msgs) : msgs[j].role = "tool"
Unanswered(msgs) ==
    LET k == LastCalls(msgs)
        replied == {msgs[j].tool_call_id : j \in (k + 1)..Len(msgs)}
        IsOpen(tc) == tc.id \notin replied
    IN  SelectSeq(parse_openai_tool_calls(msgs[k].tool_calls.v), IsOpen)
C6_ResumeAnswersPending ==
    [][/\ (pc = "resume" /\ EndsInCallsAndReplies(mem)) =>
              pending' = Unanswered(mem)
       /\ (pc = "resume_exec" /\ ToolsFollowTheirCall(mem) /\ ToolsHaveIds(mem)) =>
              /\ pc' = (IF Len(pending) > 1 THEN "resume_exec" ELSE "clean2")
              /\ pending' = Tail(pending)
              /\ Len(mem') = Len(mem) + 1
              /\ mem'[Len(mem')].role = "tool"
              /\ mem'[Len(mem')].tool_call_id = Head(pending).id]_vars

\* C7: when resume is aborted (a message that is not a tool reply follows
\* the most recent assistant message with tool calls, which covers a user
\* message met first by the backward scan; or no call is pending), the resume
\* phase ends without appending a message and without executing a tool.
ResumeAborts(msgs) ==
    LET withCalls == {k \in 1..Len(msgs) : IsAssistantWithCalls(msgs[k])}
    IN  \/ withCalls = {}
        \/ LET k == CHOOSE x \in withCalls : \A y \in withCalls : y <= x
               replied == {msgs[j].tool_call_id : j \in (k + 1)..Len(msgs)}
           IN  \/ \E j \in (k + 1)..Len(msgs) : msgs[j].role # "tool"
               \/ \A tc \in CallIds(msgs[k]) : tc = 0 \/ tc \in replied
C7_AbortedResumeDoesNothing ==
    [][(pc = "resume" /\ ResumeAborts(mem)) =>
          /\ pc' = "clean2"
          /\ pending' = <<>>
          /\ mem' = mem
          /\ disk' = disk
          /\ trace' = trace]_vars
C7_Witness ==
    /\ pc = "clean2"
    /\ pending = <<>>
    /\ trace = <<>>
    /\ \E k \in 1..Len(mem) :
          /\ IsAssistantWithCalls(mem[k])
          /\ k < Len(mem)
          /\ mem[k + 1].role # "tool"
          /\ \A j \in (k + 1)..Len(mem) : mem[j].role # "tool"

\* C8: once the sanitizer has run on the loaded session, every tool message
\* left in the session has a non-empty tool_call_id.
C8_SanitizedToolsHaveIds ==
    pc = "system" => ToolsHaveIds(mem)

\* C9: after a turn no two tool calls of the assistant messages of the
\* session share an id, and no two tool messages share a tool_call_id.
CallSlots(msgs) ==
    {<<i, k>> \in (1..Len(msgs)) \X (1..MaxCalls + 1) :
        /\ msgs[i].role = "assistant"
        /\ k <= Len(msgs[i].tool_calls.v)}
UniqueIds(msgs) ==
    /\ \A a, b \in CallSlots(msgs) :
          a # b => msgs[a[1]].tool_calls.v[a[2]].id # msgs[b[1]].tool_calls.v[b[2]].id
    /\ \A i, j \in 1..Len(msgs) :
          (i # j /\ msgs[i].role = "tool" /\ msgs[j].role = "tool")
              => msgs[i].tool_call_id # msgs[j].tool_call_id
C9_IdsAreUnique ==
    pc = "returned" => UniqueIds(mem)

\* C10: an assistant message appended by run_agent_once has content None
\* when it carries tool calls, and tool_calls None when it carries none.
InRun == pc \notin {"closed", "idle", "returned", "raised"}
C10_AppendedAssistantShape ==
    [][InRun =>
          \A i \in (Len(mem) + 1)..Len(mem') :
              mem'[i].role = "assistant" =>
                  IF Truthy(mem'[i].tool_calls)
                  THEN mem'[i].content = None
                  ELSE mem'[i].tool_calls = NoCalls]_vars
C10_Witness ==
    /\ pc = "tools"
    /\ step = 2
    /\ mem[Len(mem)].content = None
    /\ IsAssistantWithCalls(mem[Len(mem)])
    /\ mem[Len(mem) - 1] = AssistantText("")

\* C11: an invocation of run_agent_once begins at most as many LLM steps as
\* the agent profile's max_steps when it is set, the max_steps argument
\* otherwise; and every LLM step that ends without returning or raising has
\* incremented step, the step with empty text and no tool calls included.
C11_StepsAreBounded ==
    [][/\ InRun' =>
              chats' <= (IF agent'.max_steps.some THEN agent'.max_steps.v ELSE max_steps')
       /\ (pc = "llm" /\ pc' # "llm") =>
              \/ pc' \in {"returned", "raised"}
              \/ step' = step + 1 /\ chats' = step']_vars
C11_Witness ==
    /\ pc = "returned"
    /\ ret = NOTICE
    /\ agent.max_steps = SomeSteps(1)
    /\ max_steps = 2
    /\ chats = 1
    /\ mem[Len(mem)] = AssistantText("")

\* C12: run_agent_once ends by returning the assistant's final text, the
\* LLM-failure text or the max-steps notice; when it raises, the exception
\* is the protocol-violation assertion.
C12_EndsByReturning ==
    /\ pc = "returned" => ret \in {"t", LLM_FAILED, NOTICE}
    /\ pc = "raised" => ret = "Protocol violation"

\* C13: in one LLM step the provider is called at most 3 times; when the
\* third call fails, the step appends the one assistant message holding the
\* error text, executes no tool and returns the error text; a failed call
\* before the third appends nothing, and a call that succeeds appends no
\* error message.
C13_ThreeAttempts ==
    [][pc = "llm" =>
          /\ attempt < 3
          /\ attempt' <= 3
          /\ attempt' = 3 =>
                /\ mem' = Append(mem, AssistantText(LLM_FAILED))
                /\ disk' = Append(disk, json_dumps(AssistantText(LLM_FAILED)))
                /\ trace' = trace
                /\ pc' = "returned"
                /\ ret' = LLM_FAILED
          /\ (attempt' = attempt + 1 /\ attempt' < 3) =>
                /\ mem' = mem
                /\ pc' = "llm"
          /\ attempt' = attempt =>
                \A i \in (Len(mem) + 1)..Len(mem') : mem'[i].content # LLM_FAILED]_vars
C13_Witness ==
    /\ pc = "returned"
    /\ ret = LLM_FAILED
    /\ attempt = 3
    /\ step = 1
    /\ Len(trace) = 2
    /\ mem[Len(mem)] = AssistantText(LLM_FAILED)
    /\ mem[Len(mem) - 1].role = "tool"

\* C14: after a provider call failed with an HTTP 4xx error the provider is
\* not called again in that step: that call was the step's first and only
\* one, and the step ends by returning the error.
C14_FatalErrorIsNotRetried ==
    [][(pc = "llm" /\ last_err' = "HTTPError 4xx") =>
          /\ attempt' = 1
          /\ pc' = "returned"
          /\ ret' = LLM_FAILED]_vars

\* C15: run_agent_once does not end by the exception of a failed event-log
\* write.
C15_EventFailureDoesNotAbort ==
    pc = "raised" => ret # "OSError"

\* C16: the tool replies of the resume phase are appended before the user
\* message of the turn; when an iteration of a tool-call loop starts, the
\* assistant message holding the call is in the session and in the file,
\* followed by the replies to the calls before it, in order, and by nothing
\* else; and an LLM call after the first is issued when the last assistant
\* message is followed by the replies to all its calls, in order.
LastAssistant(msgs) ==
    LET S == {k \in 1..Len(msgs) : msgs[k].role = "assistant"}
    IN  IF S = {} THEN 0 ELSE CHOOSE k \in S : \A j \in S : j <= k
LastWithCalls(msgs) ==
    LET S == {k \in 1..Len(msgs) : IsAssistantWithCalls(msgs[k])}
    IN  IF S = {} THEN 0 ELSE CHOOSE k \in S : \A j \in S : j <= k
RepliesInOrder(msgs, k, n) ==
    \A i \in 1..n :
        /\ k + i <= Len(msgs)
        /\ msgs[k + i].role = "tool"
        /\ msgs[k + i].tool_call_id = msgs[k].tool_calls.v[i].id
C16_CausalOrder ==
    [][/\ pc = "resume_exec" =>
              LET k == LastWithCalls(mem)
              IN  /\ k > 0
                  /\ \A j \in (k + 1)..Len(mem) : mem[j].role = "tool"
                  /\ Head(pending).id \in CallIds(mem[k])
                  /\ \E j \in 1..Len(disk) : disk[j] = json_dumps(mem[k])
       /\ (pc = "user" /\ mem' # mem) =>
              /\ pending = <<>>
              /\ mem' = Append(mem, UserMsg(user_prompt))
       /\ pc = "tools" =>
              LET k == LastWithCalls(mem)
                  done == Len(mem) - k
              IN  /\ k > 0
                  /\ Len(mem[k].tool_calls.v) = done + Len(calls)
                  /\ RepliesInOrder(mem, k, done)
                  /\ Head(calls).id = mem[k].tool_calls.v[done + 1].id
                  /\ \E j \in 1..Len(disk) : disk[j] = json_dumps(mem[k])
                  /\ \A i \in 1..done : disk[Len(disk) - done + i] = json_dumps(mem[k + i])
       /\ (pc = "loop" /\ pc' = "llm" /\ step > 0) =>
              LET k == LastAssistant(mem')
              IN  /\ calls = <<>>
                  /\ k > 0
                  /\ IsAssistantWithCalls(mem'[k]) =>
                        /\ Len(mem') = k + Len(mem'[k].tool_calls.v)
                        /\ RepliesInOrder(mem', k, Len(mem'[k].tool_calls.v))]_vars
C16_Witness ==
    /\ pc = "llm"
    /\ step = 1
    /\ Len(trace) = 4
    /\ trace[2].ev = "exec" /\ trace[2].name = "read"
    /\ trace[4].ev = "exec" /\ trace[4].name = "bash"
    /\ mem[Len(mem)].role = "tool"
    /\ \E i, j, k \in 1..Len(mem) :
          /\ i < j /\ j < k
          /\ mem[i].role = "tool"
          /\ mem[j].role = "user"
          /\ IsAssistantWithCalls(mem[k])

\* C17: a second run of _clean_invalid_tool_messages on the result of a
\* first run leaves the message list as it is.
C17_SanitizerIsIdempotent ==
    [][pc = "system" => mem' = mem]_vars
C17_Witness ==
    /\ pc = "sanitized"
    /\ Len(mem) = 2
    /\ Len(disk) = MaxLen
    /\ mem[2].role = "tool"

\* C18: SessionStore.open on the session id returns the messages appended,
\* in append order, a trailing line left by a killed write being dropped.
C18_ReopenYieldsAppended ==
    [][(pc \in {"store", "killed"} /\ disk' = disk) =>
          /\ pc' = "store"
          /\ mem' = mem]_vars

\* C19: PermissionConfig.decide returns the decision of the last rule, in
\* list order, that matches the call (a tool: rule when its glob matches the
\* tool name, another rule when its glob matches the permission class or the
\* tool name), and when no rule matches the default-map entry of the
\* permission class.
C19_LastMatchingRuleWins ==
    pc = "decided" =>
        LET tool_name == trace[1].name
            key == ToolSpecs[tool_name]
            rules == permissions.rules
            Matches(r) == IF r.match.tool
                          THEN fnmatch(tool_name, r.match.pat)
                          ELSE fnmatch(key, r.match.pat) \/ fnmatch(tool_name, r.match.pat)
            M == {i \in 1..Len(rules) : Matches(rules[i])}
        IN  IF M # {}
            THEN \E i \in M : (\A j \in M : j <= i) /\ ret = rules[i].decision
            ELSE ret = permissions.defaults[key]
C19_Witness ==
    /\ pc = "decided"
    /\ trace[1].name = "write"
    /\ Len(permissions.rules) = 2
    /\ permissions.rules[1] = PermissionRule(AnyRule("edit"), "deny")
    /\ permissions.rules[2] = PermissionRule(ToolRule("write"), "allow")
    /\ ret = "allow"

\* C20: in a process started with --no-bash the permission gate allows no
\* call of the bash tool.
C20_NoBashDeniesBash ==
    \A i \in 1..Len(trace) :
        (cli.no_bash /\ trace[i].ev = "gate" /\ trace[i].name = "bash") => ~trace[i].ok

\* C21: for every rule list, default map and call, adding a deny rule to the
\* rule list never changes the decision for the call from deny to allow or
\* ask.
C21_DenyRuleIsMonotone ==
    [][(pc = "added" /\ pc' = "redecided" /\ ret = "deny") => ret' = "deny"]_vars
C21_Witness ==
    /\ pc = "redecided"
    /\ ret = "deny"
    /\ trace[Len(trace)].name = "write"
    /\ Len(permissions.rules) = 2
    /\ permissions.rules[1] = PermissionRule(AnyRule("edit"), "deny")
    /\ permissions.rules[2] = PermissionRule(AnyRule("bash"), "deny")

\* C22: PermissionGate.decide allows a call without prompting when the
\* engine decision is allow, allows an ask decision without prompting when
\* auto-approve is set and otherwise returns the interactive answer, and
\* refuses a deny decision without prompting even when auto-approve is set.
C22_GateFollowsDecision ==
    pc = "decided" =>
        LET prompted == Len(trace) = 2 /\ trace[1].ev = "prompt"
            allowed == trace[Len(trace)].ok
        IN  /\ trace[Len(trace)].ev = "gate"
            /\ ret = "allow" => allowed /\ ~prompted
            /\ ret = "deny" => ~allowed /\ ~prompted
            /\ (ret = "ask" /\ permissions.auto_approve) => allowed /\ ~prompted
            /\ (ret = "ask" /\ ~permissions.auto_approve) =>
                   prompted /\ allowed = trace[1].ok
C22_Witness ==
    /\ pc = "decided"
    /\ ret = "deny"
    /\ permissions.auto_approve
    /\ trace = <<GateEvent(ToolCall(0, "bash"), FALSE)>>

\* C23: for any interleaving of concurrent MCPClient.request calls on one
\* client and any order of server replies, request ids are pairwise distinct
\* and a request is resolved only by a reply that carries its id: it raises
\* RuntimeError when that reply has an error and returns the reply's result
\* otherwise; no request receives the reply of another request.
C23_RepliesGoToTheirRequest ==
    pc = "mcp" =>
        LET emitted == procs[1].emitted
            ReplyOf(e, kind) == /\ e.val \in 1..Len(emitted)
                                /\ emitted[e.val].id = e.id
                                /\ emitted[e.val].kind = kind
        IN  /\ \A i, j \in 1..Len(trace) : i # j => trace[i].id # trace[j].id
            /\ \A t1, t2 \in Threads :
                   (t1 # t2 /\ threads[t1].pc # "idle" /\ threads[t2].pc # "idle")
                       => threads[t1].rid # threads[t2].rid
            /\ \A t \in Threads :
                   /\ threads[t].ev => threads[t].holder.id = threads[t].rid
                   /\ (threads[t].pc = "idle" /\ threads[t].ok) =>
                          \E i \in 1..Len(trace) :
                              /\ trace[i].id = threads[t].rid
                              /\ trace[i].val = threads[t].holder.val
                              /\ trace[i].kind = IF threads[t].holder.kind = "error"
                                                 THEN "RuntimeError" ELSE "return"
            /\ \A i \in 1..Len(trace) :
                   /\ trace[i].kind = "return" => ReplyOf(trace[i], "result")
                   /\ trace[i].kind = "RuntimeError" => ReplyOf(trace[i], "error")
C23_Witness ==
    /\ pc = "mcp"
    /\ procs[1].emitted = <<Reply(2, "result", 1), Reply(1, "error", 2)>>
    /\ \E i, j \in 1..Len(trace) :
          /\ trace[i] = [ev |-> "mcp", id |-> 1, kind |-> "RuntimeError", val |-> 2]
          /\ trace[j] = [ev |-> "mcp", id |-> 2, kind |-> "return", val |-> 1]

\* C24: when an MCP request times out its entry is removed from the pending
\* table, and a reply that arrives afterwards for that id is dropped: the
\* reader's dispatch of it changes no request's event, holder or outcome
\* and leaves the pending table as it is.
TimedOut(id) == \E i \in 1..Len(trace) : trace[i].id = id /\ trace[i].kind = "TimeoutError"
C24_LateReplyIsDropped ==
    [][pc = "mcp" =>
          /\ \A i \in 1..Len(trace') :
                 trace'[i].kind = "TimeoutError"
                     => trace'[i].id \notin DOMAIN mcp_clients'[1]._pending
          /\ ( /\ mcp_clients[1]._reader.pc = "dispatch"
               /\ mcp_clients'[1]._reader.pc = "read"
               /\ TimedOut(mcp_clients[1]._reader.msg.id) )
              => /\ UNCHANGED <<threads, trace>>
                 /\ mcp_clients'[1]._pending = mcp_clients[1]._pending]_vars
C24_Witness ==
    /\ pc = "mcp"
    /\ mcp_clients[1]._reader.pc = "dispatch"
    /\ mcp_clients[1]._reader.msg.id = 1
    /\ mcp_clients[1]._lock = 0
    /\ TimedOut(1)
    /\ \E t \in Threads : threads[t].pc = "wait" /\ threads[t].rid = 2

\* C25: every call to MCPClient.request eventually returns or raises,
\* whether or not the server replies, also when the child has exited, writes
\* malformed lines or replies with unknown ids, or stops reading its stdin.
C25_RequestEnds ==
    \A t \in Threads :
        (pc = "mcp" /\ threads[t].pc # "idle") ~> (threads[t].pc = "idle")

\* C26: after AppContext.close(), every MCP child process that was spawned
\* while building the context has been sent terminate (or had exited on its
\* own), also the processes of servers started before another server's
\* spawn, tools/list or tool registration failed.
C26_CloseTerminatesChildren ==
    pc = "ctx_closed" =>
        \A i \in 1..Len(procs) : procs[i].terminated \/ ~procs[i].alive

\* xs is a subsequence of ys: its elements occur in ys in the same order.
RECURSIVE IsSubsequence(_, _)
IsSubsequence(xs, ys) ==
    IF xs = <<>> THEN TRUE
    ELSE IF ys = <<>> THEN FALSE
    ELSE IF Head(xs) = Head(ys) THEN IsSubsequence(Tail(xs), Tail(ys))
    ELSE IsSubsequence(xs, Tail(ys))

LastN(xs, n) == SubSeq(xs, (IF Len(xs) > n THEN Len(xs) - n + 1 ELSE 1), Len(xs))

\* C27: for every session message list and policy, the last
\* policy.max_messages non-summary messages of the session all appear in
\* the output of build_prompt_messages, in their original relative order.
C27_CompactionPreservesTail ==
    pc = "prompt_built" =>
        IsSubsequence(MapToOpenai(LastN(SelectSeq(mem, NotSummary), policy.max_messages)), ret)

\* C28: the list returned by build_prompt_messages never has more than
\* policy.max_messages entries, whatever the number of system messages, and
\* its non-system messages are a suffix of the session's non-system
\* messages.
C28_PromptIsCapped ==
    pc = "prompt_built" =>
        LET NotSystemDict(d) == d.role # "system"
            others == MapToOpenai(SelectSeq(mem, NotSystem))
            kept == SelectSeq(ret, NotSystemDict)
        IN  /\ Len(ret) <= policy.max_messages
            /\ Len(kept) <= Len(others)
            /\ kept = LastN(others, Len(kept))

\* C29: a tool result longer than policy.max_tool_result_chars is persisted
\* as a head of the original, the marker and a tail of the original, and the
\* persisted content is not longer than max_tool_result_chars (for even and
\* odd caps); a result of at most max_tool_result_chars characters is
\* persisted unchanged.
C29_TruncationRespectsCap ==
    pc = "persisted" =>
        LET cap == policy.max_tool_result_chars
            out == mem[Len(mem)].content
        IN  IF Len(ret) > cap
            THEN /\ \E h, t \in 0..Len(ret) :
                        out = SubSeq(ret, 1, h) \o MARKER \o SubSeq(ret, Len(ret) - t + 1, Len(ret))
                 /\ Len(out) <= cap
            ELSE out = ret

\* Two edits share a line of the file.
ShareALine(a, b) ==
    \E l \in 1..(MaxFileLines + 2) :
        /\ a.start_line <= l /\ l <= a.end_line
        /\ b.start_line <= l /\ l <= b.end_line

\* C30: multiedit called with edits that overlap or are not sorted by start
\* line returns an error before any write: the file is exactly what it was
\* before the call.
C30_BadEditsWriteNothing ==
    [][(pc = "multiedit" /\ pc' = "edited") =>
          LET edits == calls[1].arguments
              unsorted == \E i, j \in 1..Len(edits) :
                              i < j /\ edits[i].start_line > edits[j].start_line
              overlap == \E i, j \in 1..Len(edits) : i # j /\ ShareALine(edits[i], edits[j])
          IN  (unsorted \/ overlap) => (ret'.is_error /\ files' = files)]_vars
C30_Witness ==
    /\ pc = "edited"
    /\ Len(calls[1].arguments) = 2
    /\ calls[1].arguments[1] = [start_line |-> 1, end_line |-> 2, new_text |-> <<"x">>]
    /\ calls[1].arguments[2] = [start_line |-> 2, end_line |-> 3, new_text |-> <<"x">>]
    /\ files = [lines |-> <<"l1", "l2", "l3">>, nl |-> TRUE]
    /\ ret = ToolResult("edits must not overlap", TRUE)

\* run_agent_once has returned because the loop test step < max_steps failed.
Exhausted ==
    /\ turns >= 1
    /\ pc = "returned"
    /\ ~(step < StepLimit(agent, max_steps))

\* C31: when the step budget is exhausted, run_agent_once returns the text
\* of the most recent turn of this invocation whose text is not empty, and
\* the max-steps notice when no turn of this invocation had text.
C31_ExhaustedReturnsLatestText ==
    Exhausted =>
        LET spoke == {i \in 1..Len(texts) : texts[i] # ""}
        IN  IF spoke = {}
            THEN ret = NOTICE
            ELSE \E i \in spoke : (\A j \in spoke : j <= i) /\ ret = texts[i]
C31_Witness ==
    /\ Exhausted
    /\ texts = <<"t", "">>
    /\ ret = "t"

\* C32: when the agent profile's prompt is not empty, every message list
\* sent to the LLM begins with the agent system message, also on a step
\* whose build replaced the head of the conversation by a summary.
C32_PromptBeginsWithAgent ==
    (pc = "prompt_built" /\ agent.system_prompt # "") =>
        /\ ret # <<>>
        /\ ret[1] = Message_to_openai(SystemMsg(AGENT_NAME, agent.system_prompt))

\* C33: after a prompt build that called the summarizer and persisted its
\* summary, the prompt build of the next LLM step does not call the
\* summarizer again (and so appends no other summary to the session).
C33_SummaryIsACutoff ==
    \A i \in 1..Len(trace) :
        (trace[i] = SummarizeEvent /\ i + 2 <= Len(trace) /\ trace[i + 1] = ChatEvent)
            => trace[i + 2] # SummarizeEvent

\* C34: when the command template sets model or max_steps, cmd still runs
\* the turn, its LLM calls use the template's model and its loop is capped
\* at the template's max_steps.
C34_CmdAppliesOverrides ==
    [][(pc = "cmd" /\ ~read_text_raises(disk)
            /\ (command.model # None \/ command.max_steps.some)) =>
          /\ pc' = "sanitize"
          /\ command.model # None =>
                 (IF agent'.model # None THEN agent'.model ELSE provider'.model)
                     = command.model
          /\ command.max_steps.some =>
                 StepLimit(agent', max_steps') = command.max_steps.v]_vars

\* C35: over the invocations of run_agent_once on one session, with no
\* process crash, the tool of a tool call with a given id is executed at
\* most once.
C35_ExecutedAtMostOnce ==
    \A i, j \in 1..Len(trace) :
        (i < j /\ trace[i].ev = "exec" /\ trace[j].ev = "exec")
            => trace[i].id # trace[j].id

\* C36: when run_agent_once has returned normally, every tool call of every
\* assistant message that the invocation appended has a tool message with
\* the call's id after it in the session.
C36_NoCallLeftAtReturn ==
    (turns >= 1 /\ pc = "returned") =>
        \A k \in (base + 1)..Len(mem) :
            IsAssistantWithCalls(mem[k]) =>
                \A id \in CallIds(mem[k]) :
                    \E j \in (k + 1)..Len(mem) :
                        mem[j].role = "tool" /\ mem[j].tool_call_id = id
C36_Witness ==
    /\ turns >= 1
    /\ pc = "returned"
    /\ ret = "t"
    /\ Len(mem) = base + 3
    /\ IsAssistantWithCalls(mem[base + 1])
    /\ mem[base + 2].role = "tool"
    /\ mem[base + 2].tool_call_id \in CallIds(mem[base + 1])
    /\ mem[base + 3] = AssistantText("t")

\* C37: at every point where run_agent_once returns or raises, the
\* in-memory message list of the session equals the list that
\* SessionStore.open reads from the session file.
C37_MemoryEqualsFile ==
    (turns >= 1 /\ pc \in {"returned", "raised"}) => mem = SessionStore_open(disk)

\* C38: the pending table of the MCP client holds only ids of requests that
\* are inside request(): the table is empty whenever no request is in
\* progress, whatever way the requests ended.
C38_PendingOnlyInProgress ==
    DOMAIN mcp_clients[1]._pending \subseteq
        {threads[t].rid : t \in {u \in Threads : threads[u].pc \in {"write", "wait", "pop"}}}

\* C39: a request for which the reader stored a reply before the request
\* removed its entry returns that reply's result or raises its error; it
\* raises TimeoutError only when no reply was stored for it.
C39_StoredReplyIsReturned ==
    [][\A t \in Threads :
          (threads[t].pc = "pop" /\ threads'[t].pc = "idle"
              /\ threads[t].holder # NoMsg)
            => trace'[Len(trace')].kind # "TimeoutError"]_vars

\* C40: multiedit is all-or-nothing: whenever it returns an error result,
\* for any reason (an edit with an invalid line range included), the file
\* is exactly what it was before the call.
C40_ErrorWritesNothing ==
    [][(pc = "multiedit" /\ pc' = "edited" /\ ret'.is_error) => files' = files]_vars

====
